---------------------------- MODULE Spec2Model ----------------------------
(***************************************************************************)
(* Metafora: the core consumer (Consumer.Run main loop, claimed, runTask,  *)
(* stopTask, close, shutdown, Shutdown, handleCommand), the coordinator    *)
(* contract it drives (Watch, Claim, Release, Done, Command, Close) over   *)
(* an etcd-style broker with owner markers, and the client operations.     *)
(*                                                                         *)
(* Granularity: one action per goroutine step between two synchronisation  *)
(* points.  A region executed under Consumer.runL is one atomic action.    *)
(* Go's select picks any ready case, so every ready case is an enabled     *)
(* action.                                                                 *)
(***************************************************************************)
EXTENDS Naturals, Integers, Sequences, FiniteSets, TLC

\* ------------------------------------------------------------------ bounds
\* client SubmitTask calls in a run
MaxSubmit == 2
\* client SubmitCommand calls in a run
MaxCmd == 1
\* owner markers that expire (or are deleted externally) in a run
MaxExpire == 1
\* balance timer firings in a run
MaxTick == 1
\* fatal Watch errors in a run
MaxWatchErr == 1
\* handlers that return false from Run without having been stopped, in a run
MaxYield == 1
\* handler goroutines a consumer starts in a run: a consumer that has
\* started this many takes no further task from c.tasks
MaxHandlers == 2
\* freeze/unfreeze commands in a run of the freeze specification
MaxFreezeCmd == 2
\* client SubmitTask calls in a run of the specification with fairness
MaxLiveSubmit == 1
\* client SubmitTask calls in a run of the cluster specification
MaxClusterSubmit == 1
\* commands the operator sends in a run
MaxOpCmd == 2
\* owner markers that expire in a run of the lost-claim specification
MaxLostExpire == 2
\* tasks the balancer refuses in a run
MaxRefuse == 2

Nodes == {"n1", "n2"}
\* the task IDs, in lexicographic order
TaskOrder == <<"t1", "t2">>
Tasks == {TaskOrder[i] : i \in DOMAIN TaskOrder}

\* goroutines that call stop() on one runningtask, and how far its clock runs
MaxStoppers == 3
Stoppers == 1..MaxStoppers
MaxClock == 4

\* the FairBalancer of node n1: the release threshold 1.2 as a fraction, the
\* largest task count a node reports, the tasks a node may run
ThresholdNum == 12
ThresholdDen == 10
MaxCount == 8
Self == "n1"
BalTasks == {"a", "b", "c", "d"}

\* the six tasks of the two-consumer balancing scenario
SixTasks == {"t1", "t2", "t3", "t4", "t5", "t6"}

\* no call on the balancer has returned yet
NoCall == [op |-> "none"]

\* the ResourceBalancer: percentages run to 100; the reporter's totals and the
\* release limits tried (NewResourceBalancer takes limits from 1 to 100, the
\* release limit above the claim limit); the IDs of the tasks a node may
\* run, in the lexicographic order of Consumer.Tasks(); the instants a task
\* may have started at and the instant Stop was called on a stopping task
MaxPercent == 100
RbTotals == {8, 100}
ReleaseLimits == {2, 50, 53, 75, 100}
RbOrder == <<"a", "b", "c">>
RbIds == {RbOrder[i] : i \in DOMAIN RbOrder}
MaxStarted == 2
StoppedAt == 3
NoRbTask == [run |-> FALSE, started |-> 0, stopped |-> 0]

\* an int64 in two's complement, as four 16-bit limbs, the most significant
\* first
LimbBase == 65536
MaxInt64 == <<32767, 65535, 65535, 65535>>
Zero64 == <<0, 0, 0, 0>>

\* the int64 of a small non-negative number
ToInt64(n) == <<0, 0, n \div LimbBase, n % LimbBase>>

\* a + b in int64: the carry out of the top limb is lost, the sum wraps
Add64(a, b) ==
    LET s4 == a[4] + b[4]
        s3 == a[3] + b[3] + s4 \div LimbBase
        s2 == a[2] + b[2] + s3 \div LimbBase
        s1 == a[1] + b[1] + s2 \div LimbBase
    IN  <<s1 % LimbBase, s2 % LimbBase, s3 % LimbBase, s4 % LimbBase>>

\* a < b in int64: a negative number (top bit set) is below a non-negative
\* one, two numbers of the same sign compare as their limbs do
Less64(a, b) ==
    LET nega == a[1] >= LimbBase \div 2
        negb == b[1] >= LimbBase \div 2
    IN  IF nega # negb THEN nega
        ELSE \E i \in 1..4 : a[i] < b[i] /\ \A j \in 1..(i - 1) : a[j] = b[j]

\* package time: a Time holds the seconds since January 1, year 1, that is
\* the Unix seconds plus unixToInternal = 62135596800 = 0xE7791F700
unixToInternal == <<0, 14, 30609, 63232>>

\* time.Unix(sec, 0)
Unix(sec) == Add64(sec, unixToInternal)

\* t.After(u), for times on whole seconds
After(t, u) == Less64(u, t)

\* `forever = time.Unix(math.MaxInt64, 0)`
forever == Unix(MaxInt64)

\* etcd responses: the actions of task.go and one more; the last part of a
\* key; the children of a task directory (a props file is "props" when it
\* holds valid JSON and "badprops" when not); how many children a listing
\* holds at most, how many parts a key has
actionCreated == "create"
actionSet == "set"
actionExpire == "expire"
actionDelete == "delete"
actionCAD == "compareAndDelete"
claimMarker == "owner"
propsKey == "props"
Actions == {actionCreated, actionSet, actionExpire, actionDelete, actionCAD, "update"}
LastParts == {claimMarker, propsKey, "other"}
ChildKinds == {claimMarker, propsKey, "badprops", "other"}
MaxNodes == 2
MinParts == 3
MaxParts == 5
NodeLists == UNION {[1..k -> ChildKinds] : k \in 0..MaxNodes}
NoResp == [under |-> FALSE, parts |-> MinParts, last |-> "other", action |-> "update",
           dir |-> FALSE, valid |-> FALSE, nodes |-> <<>>,
           get |-> [err |-> TRUE, nodes |-> <<>>]]

\* the mutexes of a consumer (stopL is the one of a task's runningtask) and
\* the goroutines that take them: the main loop, the handler goroutine of
\* a task and the goroutine stopTask starts for it
\* the embedded coordinator under a consumer: submissions and handler starts
MaxSeenSubmit == 3
MaxSeenHandlers == 3

\* the callers of EtcdCoordinator.Close, and the refreshes that succeed
Closers == {"refresher", "shutdown"}
MaxRefresh == 2

Locks == {"runL", "freezeL", "stopL"}
Goroutines == {"main", "handler", "stopper"}

\* the task type mux: the key of the default route and the _type values of
\* tasks; the balancers handed to New and Add, and AlwaysReject
defkey == ""
Types == {defkey, "x", "y"}
UserBalancers == {"defb", "bx"}
AlwaysReject == "AlwaysReject"

\* the current times tried, in Unix seconds: 1970, 2015 and 2038
Clock == <<Unix(ToInt64(0)), Unix(ToInt64(1420070400)), Unix(ToInt64(2147483647))>>

\* what a balancer's CanClaim may answer: claim now, or ignore the task
\* until an instant past the times tried
Accept == [until |-> Zero64, ok |-> TRUE]
Delay == [until |-> Add64(Clock[Len(Clock)], ToInt64(1)), ok |-> FALSE]
None  == "none"

\* command names, handleCommand's switch
cmdFreeze   == "freeze"
cmdUnfreeze == "unfreeze"
cmdBalance  == "run_balance"
cmdStopTask == "stop_task"

\* A command: its name and, for stop_task, the "task" parameter.
Commands ==
    {[name |-> c, task |-> None] : c \in {cmdFreeze, cmdUnfreeze, cmdBalance}}
    \cup {[name |-> cmdStopTask, task |-> t] : t \in Tasks}

NoCmd == [name |-> None, task |-> None]

\* a "task" parameter that is not a string, and a task ID that no client
\* ever submitted
NonString == "<not a string>"
UnknownTask == "t0"

\* stop_task commands with and without a usable "task" parameter (None: the
\* parameter is absent)
StopCommands ==
    {[name |-> cmdStopTask, task |-> t] : t \in Tasks \cup {UnknownTask, None, NonString}}

\* handleCommand's `taskI, ok := cmd.Parameters()["task"]; task, ok2 :=
\* taskI.(string)`: ok && ok2
hasTask(c) == c.task \notin {None, NonString}

VARIABLES
    \* ---- broker (etcd key space) ----
    props,      \* tasks/<id>/props exists: the set of task IDs in the broker
    owner,      \* tasks/<id>/owner: the node named by the marker, or None
    cmds,       \* nodes/<n>/commands: the pending commands, oldest first
    \* ---- coordinator of each node ----
    ecStop,     \* EtcdCoordinator.stop is closed
    refresh,    \* claims whose marker this node keeps refreshing
    evq,        \* watch responses not yet parsed by Watch, oldest first
    \* ---- goroutines started by Run ----
    watchPc,    \* watcher: "idle" | "start" | "watching" | "sending" | "exit"
    wtask,      \* the task the watcher is blocked sending on c.tasks
    pollPc,     \* command poller: "idle" | "poll" | "send" | "exit"
    pcmd,       \* the command the poller is blocked sending on cmdChan
    \* ---- ignore manager ----
    ign,        \* ignore entries, per task: "no" | "wait" (deadline ahead) | "due"
    isend,      \* the expired task the ignore manager is blocked re-sending on c.tasks
    \* ---- Consumer ----
    runPc,      \* Run: "idle" | "start" | "loop" | "claim" | "admit" |
                \*      "close" | "stopall" | "wait" | "done"
    cur,        \* the task the main loop is processing
    stop,       \* c.stop is closed
    closes,     \* how many times close(c.stop) has been executed
    running,    \* c.running: task ID -> handler instance (0: absent)
    hwg,        \* c.hwg counter
    runwg,      \* c.runwg counter
    freeze,     \* c.freeze
    hs,         \* handler goroutines ever started, by instance number
    stopQ,      \* instances with a stopTask goroutine not yet run
    shutPc,     \* caller of Shutdown: "idle" | "hwg" | "runwg" | "returned"
    againPc,    \* another caller of Shutdown, as shutPc
    \* ---- history ----
    held,       \* per node and task: Claims granted minus Release/Done calls made
    markLost,   \* per node: tasks whose marker, owned by the node, was removed
                \* under the node's handler since the node's last Claim of the task
    shutAt,     \* what held when Shutdown was called
    closedAt,   \* live handler goroutines when shutdown() called coord.Close (-1: not yet)
    budget,     \* environment inputs still allowed
    \* ---- EmbeddedCoordinator ----
    emStop,     \* e.stopchan is closed
    emPanic,    \* a call on the coordinator has panicked
    emWatchPc,  \* caller of Watch: "idle" | "blocked" | "nil"
    emCmdPc,    \* caller of Command: "idle" | "blocked" | "nil"
    \* ---- runningtask ----
    rtNow,      \* the clock: what time.Now() returns
    rtStopped,  \* runningtask.stopped (0: the zero time)
    rtFirst,    \* the clock read by the first stop() to run (0: none has run)
    rtPc,       \* callers of stop(): "idle" | "waiting" (for stopL) | "held" (in h.Stop())
    \* ---- FairBalancer ----
    fbTasks,    \* ctx.Tasks(): the IDs of the tasks running on this node
    fbCounts,   \* what clusterstate.NodeTaskCount() returns: node -> number of tasks
    fbErr,      \* NodeTaskCount returns an error
    fbNow,      \* the clock, in seconds
    fbDelay,    \* FairBalancer.delay (0: the zero time)
    fbPc,       \* Balance: "idle" | "loop" (picking the tasks to release)
    fbShould,   \* Balance's shouldrelease
    fbRel,      \* Balance's releasetasks
    fbOut,      \* what the last call on the balancer returned
    fbCool,     \* when the cooldown set by the last releasing Balance ends (0: none yet)
    \* ---- two consumers with FairBalancers ----
    clOwner,    \* the consumer that runs each task (None: released, in the broker unowned)
    clDelay,    \* per consumer: its FairBalancer's delay
    clNow,      \* the clock, in seconds
    clCmd,      \* per consumer: run_balance commands it has yet to receive
    \* ---- a ResourceBalancer ----
    rbUsed,     \* ResourceReporter.Used(): the amount used
    rbTotal,    \* ResourceReporter.Used(): the total amount
    rbLimit,    \* the balancer's releaseLimit
    rbTasks,    \* ctx.Tasks(): per ID whether it runs, its Started and Stopped times
    rbOut,      \* what the last call on the balancer returned
    \* ---- a task type mux ----
    mxRoutes,   \* mux.routes: the balancer registered for each type (None: no route)
    mxAns,      \* what each registered balancer's CanClaim answers
    mxNow,      \* the wall clock: an index into Clock
    mxOut,      \* what the last call on the mux returned
    \* ---- a BalancerMux ----
    bmTasks,    \* ctx.Tasks() of the consumer: the IDs of its running tasks
    bmRemaining, \* muxctx.remaining
    bmReleased, \* muxctx.releasedset
    bmNext,     \* BalancerMux.Balance: the inner balancer called next (0: not in Balance)
    bmGiven,    \* per inner balancer called: the task list its Balance was given
    bmGot,      \* per inner balancer called: the IDs its Balance returned
    bmPanic,    \* muxctx.add ran past the end of its slice
    bmOut,      \* what the last call on the BalancerMux returned
    \* ---- Consumer.Tasks ----
    tkRunning,  \* c.running of one consumer: the IDs of its running tasks, as strings of character codes
    tkPc,       \* Tasks(): "idle" | "sort" (holding runL, the IDs collected, not yet sorted)
    tkIds,      \* Tasks(): the slice ids
    tkOut,      \* what the last call of Tasks() returned
    \* ---- parseTask ----
    ptResp,     \* the etcd response handed to parseTask, with the answer its follow-up GET would get
    ptOut,      \* what the last call of parseTask returned
    \* ---- the consumer's mutexes ----
    lkAt,       \* per goroutine: the step of its Program it is to take next (0: not started)
    lkHolder,   \* per mutex: the goroutine that holds it
    \* ---- the main loop, step by step ----
    mlPc,       \* the main loop: "select" | "claim" | "claimed" | "balance" | "release" | "command" | "return"
    mlCur,      \* the task the main loop is admitting
    mlCmd,      \* the name of the command handleCommand is processing
    mlRel,      \* the IDs Balance returned
    mlRunning,  \* c.running of this consumer
    mlFreeze,   \* c.freeze
    mlTaskCh,   \* the task the watcher is blocked sending on c.tasks
    mlCmdCh,    \* the command the poller is blocked sending on cmdChan
    mlBalCh,    \* the ticker is blocked sending on balance
    mlAdm,      \* admissions in progress: a task received and not yet through Claim and claimed()
    mlBal,      \* calls of Consumer.balance in progress
    mlCmds,     \* calls of handleCommand in progress
    \* ---- the embedded coordinator under a consumer ----
    esSeen,     \* e.tasks of the embedded coordinator: the IDs it has seen
    esIn,       \* the IDs waiting on inchan: submitted, or held by a Release goroutine
    esOut,      \* the task Watch has recorded and is sending to the consumer
    esRunning,  \* c.running of the consumer
    esHs,       \* the handler goroutines: [task, pc, done], pc "run" | "after" | "exit"
    esLeft,     \* the submissions the user may still make
    esPanic,    \* Release has panicked
    \* ---- the etcd coordinator's stop channel ----
    nrStop,     \* ec.stop of the etcd coordinator is closed
    nrCloses,   \* the number of close(ec.stop) executed
    nrPc,       \* each caller of Close: "idle" | "check" | "close" | "delete" | "done"
    nrRef,      \* the node refresher: "wait" | "refresh" | "close" | "exit"
    nrTries,    \* the refreshes that succeeded
    nrWatch,    \* the coordinator's Watch: "watching" | "returned"
    nrCons      \* the consumer: "run" | "shutdown" | "down"

brokerVars == <<props, owner, cmds>>
coordVars  == <<ecStop, refresh, evq>>
auxVars    == <<watchPc, wtask, pollPc, pcmd, ign, isend>>
consVars   == <<runPc, cur, stop, closes, running, hwg, runwg, freeze, hs, stopQ, shutPc, againPc>>
emVars     == <<emStop, emPanic, emWatchPc, emCmdPc>>
rtVars     == <<rtNow, rtStopped, rtFirst, rtPc>>
fbVars     == <<fbTasks, fbCounts, fbErr, fbNow, fbDelay, fbPc, fbShould, fbRel, fbOut, fbCool>>
clVars     == <<clOwner, clDelay, clNow, clCmd>>
rbVars     == <<rbUsed, rbTotal, rbLimit, rbTasks, rbOut>>
mxVars     == <<mxRoutes, mxAns, mxNow, mxOut>>
bmVars     == <<bmTasks, bmRemaining, bmReleased, bmNext, bmGiven, bmGot, bmPanic, bmOut>>
tkVars     == <<tkRunning, tkPc, tkIds, tkOut>>
ptVars     == <<ptResp, ptOut>>
lkVars     == <<lkAt, lkHolder>>
mlVars     == <<mlPc, mlCur, mlCmd, mlRel, mlRunning, mlFreeze, mlTaskCh, mlCmdCh, mlBalCh, mlAdm, mlBal, mlCmds>>
esVars     == <<esSeen, esIn, esOut, esRunning, esHs, esLeft, esPanic>>
nrVars     == <<nrStop, nrCloses, nrPc, nrRef, nrTries, nrWatch, nrCons>>
unitVars   == <<emVars, rtVars, fbVars, clVars, rbVars, mxVars, bmVars, tkVars, ptVars, lkVars, mlVars, esVars, nrVars>>
histVars   == <<held, markLost, shutAt, closedAt, budget, unitVars>>
sysVars    == <<brokerVars, coordVars, auxVars, consVars, held, markLost, shutAt, closedAt, budget>>
vars == <<brokerVars, coordVars, auxVars, consVars, histVars>>

\* everything but the EmbeddedCoordinator
besideEm == <<sysVars, rtVars, fbVars, clVars, rbVars, mxVars, bmVars, tkVars, ptVars, lkVars, mlVars, esVars, nrVars>>

\* everything but the runningtask
besideRt == <<sysVars, emVars, fbVars, clVars, rbVars, mxVars, bmVars, tkVars, ptVars, lkVars, mlVars, esVars, nrVars>>

\* everything but the FairBalancer
besideFb == <<sysVars, emVars, rtVars, clVars, rbVars, mxVars, bmVars, tkVars, ptVars, lkVars, mlVars, esVars, nrVars>>

\* everything but the pair of balanced consumers
besideCl == <<sysVars, emVars, rtVars, fbVars, rbVars, mxVars, bmVars, tkVars, ptVars, lkVars, mlVars, esVars, nrVars>>

\* everything but the ResourceBalancer
besideRb == <<sysVars, emVars, rtVars, fbVars, clVars, mxVars, bmVars, tkVars, ptVars, lkVars, mlVars, esVars, nrVars>>

\* everything but the task type mux
besideMx == <<sysVars, emVars, rtVars, fbVars, clVars, rbVars, bmVars, tkVars, ptVars, lkVars, mlVars, esVars, nrVars>>

\* everything but the BalancerMux
besideBm == <<sysVars, emVars, rtVars, fbVars, clVars, rbVars, mxVars, tkVars, ptVars, lkVars, mlVars, esVars, nrVars>>

\* everything but the task list of a consumer
besideTk == <<sysVars, emVars, rtVars, fbVars, clVars, rbVars, mxVars, bmVars, ptVars, lkVars, mlVars, esVars, nrVars>>

\* everything but the watch response parser
besidePt == <<sysVars, emVars, rtVars, fbVars, clVars, rbVars, mxVars, bmVars, tkVars, lkVars, mlVars, esVars, nrVars>>

\* everything but the mutexes of a consumer
besideLk == <<sysVars, emVars, rtVars, fbVars, clVars, rbVars, mxVars, bmVars, tkVars, ptVars, mlVars, esVars, nrVars>>

\* everything but the main loop of one consumer
besideMl == <<sysVars, emVars, rtVars, fbVars, clVars, rbVars, mxVars, bmVars, tkVars, ptVars, lkVars, esVars, nrVars>>

\* everything but the embedded coordinator under a consumer
besideEs == <<sysVars, emVars, rtVars, fbVars, clVars, rbVars, mxVars, bmVars, tkVars, ptVars, lkVars, mlVars, nrVars>>

\* everything but the etcd coordinator's stop channel
besideNr == <<sysVars, emVars, rtVars, fbVars, clVars, rbVars, mxVars, bmVars, tkVars, ptVars, lkVars, mlVars, esVars>>

\* the EmbeddedCoordinator, before any call on it
EmIdle ==
    /\ emStop = FALSE
    /\ emPanic = FALSE
    /\ emWatchPc = "idle"
    /\ emCmdPc = "idle"

\* the runningtask, before any call on it
RtIdle ==
    /\ rtNow = 1
    /\ rtStopped = 0
    /\ rtFirst = 0
    /\ rtPc = [c \in Stoppers |-> "idle"]

\* the FairBalancer, before any call on it
FbIdle ==
    /\ fbTasks = {}
    /\ fbCounts = [n \in Nodes |-> 0]
    /\ fbErr = FALSE
    /\ fbNow = 1
    /\ fbDelay = 0
    /\ fbPc = "idle"
    /\ fbShould = 0
    /\ fbRel = <<>>
    /\ fbOut = NoCall
    /\ fbCool = 0

\* the pair of balanced consumers, before any call on it
ClIdle ==
    /\ clOwner = [t \in SixTasks |-> Self]
    /\ clDelay = [n \in Nodes |-> 0]
    /\ clNow = 1
    /\ clCmd = [n \in Nodes |-> 0]

\* the ResourceBalancer, before any call on it
RbIdle ==
    /\ rbUsed = 0
    /\ rbTotal = 1
    /\ rbLimit = MaxPercent
    /\ rbTasks = [t \in RbIds |-> NoRbTask]
    /\ rbOut = NoCall

\* the task type mux, before any call on it
MxIdle ==
    /\ mxRoutes = [typ \in Types |-> IF typ = defkey THEN "defb" ELSE None]
    /\ mxAns = [b \in UserBalancers |-> Accept]
    /\ mxNow = 1
    /\ mxOut = NoCall

\* the BalancerMux, before any call on it
BmIdle ==
    /\ bmTasks = {}
    /\ bmRemaining = {}
    /\ bmReleased = {}
    /\ bmNext = 0
    /\ bmGiven = <<>>
    /\ bmGot = <<>>
    /\ bmPanic = FALSE
    /\ bmOut = NoCall

\* the task list of a consumer, before any call on it
TkIdle ==
    /\ tkRunning = {}
    /\ tkPc = "idle"
    /\ tkIds = <<>>
    /\ tkOut = NoCall

\* the watch response parser, before any call on it
PtIdle ==
    /\ ptResp = NoResp
    /\ ptOut = NoCall

\* the mutexes of a consumer, before any call on it
LkIdle ==
    /\ lkAt = [g \in Goroutines |-> IF g = "main" THEN 1 ELSE 0]
    /\ lkHolder = [l \in Locks |-> None]

\* the main loop of one consumer, before any call on it
MlIdle ==
    /\ mlPc = "select"
    /\ mlCur = None
    /\ mlCmd = NoCmd
    /\ mlRel = {}
    /\ mlRunning = {}
    /\ mlFreeze = FALSE
    /\ mlTaskCh = None
    /\ mlCmdCh = NoCmd
    /\ mlBalCh = FALSE
    /\ mlAdm = 0
    /\ mlBal = 0
    /\ mlCmds = 0

\* the embedded coordinator under a consumer, before any call on it
EsIdle ==
    /\ esSeen = {}
    /\ esIn = {}
    /\ esOut = None
    /\ esRunning = {}
    /\ esHs = <<>>
    /\ esLeft = 0
    /\ esPanic = FALSE

\* the etcd coordinator's stop channel, before any call on it
NrIdle ==
    /\ nrStop = FALSE
    /\ nrCloses = 0
    /\ nrPc = [c \in Closers |-> "idle"]
    /\ nrRef = "wait"
    /\ nrTries = 0
    /\ nrWatch = "watching"
    /\ nrCons = "run"

\* the components that stand beside the consumer, before any call on them
UnitIdle ==
    /\ EmIdle
    /\ RtIdle
    /\ FbIdle
    /\ ClIdle
    /\ RbIdle
    /\ MxIdle
    /\ BmIdle
    /\ TkIdle
    /\ PtIdle
    /\ LkIdle
    /\ MlIdle
    /\ EsIdle
    /\ NrIdle

\* the state after NewConsumer on every node, with the environment inputs b
\* still to come
InitSys(b) ==
    /\ props = {}
    /\ owner = [t \in Tasks |-> None]
    /\ cmds = [n \in Nodes |-> <<>>]
    /\ ecStop = [n \in Nodes |-> FALSE]
    /\ refresh = [n \in Nodes |-> {}]
    /\ evq = [n \in Nodes |-> <<>>]
    /\ watchPc = [n \in Nodes |-> "idle"]
    /\ wtask = [n \in Nodes |-> None]
    /\ pollPc = [n \in Nodes |-> "idle"]
    /\ pcmd = [n \in Nodes |-> NoCmd]
    /\ ign = [n \in Nodes |-> [t \in Tasks |-> "no"]]
    /\ isend = [n \in Nodes |-> None]
    /\ runPc = [n \in Nodes |-> "idle"]
    /\ cur = [n \in Nodes |-> None]
    /\ stop = [n \in Nodes |-> FALSE]
    /\ closes = [n \in Nodes |-> 0]
    /\ running = [n \in Nodes |-> [t \in Tasks |-> 0]]
    /\ hwg = [n \in Nodes |-> 0]
    /\ runwg = [n \in Nodes |-> 0]
    /\ freeze = [n \in Nodes |-> FALSE]
    /\ hs = [n \in Nodes |-> <<>>]
    /\ stopQ = [n \in Nodes |-> {}]
    /\ shutPc = [n \in Nodes |-> "idle"]
    /\ againPc = [n \in Nodes |-> "idle"]
    /\ held = [n \in Nodes |-> [t \in Tasks |-> 0]]
    /\ markLost = [n \in Nodes |-> {}]
    /\ shutAt = [n \in Nodes |-> [called |-> FALSE, runStarted |-> FALSE, running |-> {}]]
    /\ closedAt = [n \in Nodes |-> -1]
    /\ budget = b

\* the consumers as constructed, and nothing called on the other components
InitWith(b) == InitSys(b) /\ UnitIdle

\* ------------------------------------------------------------- helpers

\* the IDs of S in lexicographic order (sort.Strings in Tasks(), the sorted GET)
SortedSeq(S) == SelectSeq(TaskOrder, LAMBDA t : t \in S)

\* Consumer.Tasks(): the running task IDs, sorted
TasksOf(n) == SortedSeq({t \in Tasks : running[n][t] # 0})

RunningSet(n) == {t \in Tasks : running[n][t] # 0}

\* the handler goroutines of n that have not yet passed hwg.Done
Live(n) == {i \in DOMAIN hs[n] : hs[n][i].pc # "exit"}

\* a watch response reaches every coordinator whose Watch is past its GET
Notify(q, e) ==
    [n \in Nodes |-> IF watchPc[n] \in {"watching", "sending"}
                     THEN Append(q[n], e) ELSE q[n]]

\* n holds a Claim of t that returned true: it is about to admit t or has it
\* in c.running
Granted(n, t) == (runPc[n] = "admit" /\ cur[n] = t) \/ running[n][t] # 0

\* the marker of t is removed: its owner has lost it if it is still about
\* to admit t or has t in c.running
LoseMarker(t) ==
    [n \in Nodes |-> IF owner[t] = n /\ Granted(n, t)
                     THEN markLost[n] \cup {t} ELSE markLost[n]]

\* one more environment input of kind f has happened
Spend(f) == budget' = [budget EXCEPT ![f] = @ - 1]

\* a close() that closes c.stop without looking whether it is closed
closeUnchecked(n) ==
    /\ stop' = [stop EXCEPT ![n] = TRUE]
    /\ closes' = [closes EXCEPT ![n] = @ + 1]

\* Consumer.close: under runL, close c.stop unless it is already closed
close(n) ==
    IF stop[n]
    THEN UNCHANGED <<stop, closes>>
    ELSE /\ stop' = [stop EXCEPT ![n] = TRUE]
         /\ closes' = [closes EXCEPT ![n] = @ + 1]

\* ------------------------------------------------- coordinator and broker

\* a Claim that overwrites an existing marker
ClaimAlways(t) == TRUE

\* EtcdCoordinator.Claim: CreateDir of the owner marker succeeds iff the
\* marker does not exist
ClaimOk(t) == owner[t] = None

\* a parseTask that finds no task in any watch response
parseTaskNothing(e) == FALSE

\* parseTask: a new props file always yields its task; a removed owner
\* marker yields the task iff the follow-up GET finds the task without a
\* marker
parseTask(e) ==
    IF e.kind = "new" THEN TRUE
    ELSE e.task \in props /\ owner[e.task] = None

\* a Release that only unschedules the refresh and leaves the marker
CoordReleaseKeepMarker(n, t) ==
    /\ refresh' = [refresh EXCEPT ![n] = @ \ {t}]
    /\ UNCHANGED <<owner, evq, markLost, props>>

\* EtcdCoordinator.Release: unschedule the refresh, DeleteDir the marker
\* (whoever owns it); the delete is a watch event for every watcher
CoordRelease(n, t) ==
    /\ refresh' = [refresh EXCEPT ![n] = @ \ {t}]
    /\ IF owner[t] # None
       THEN /\ owner' = [owner EXCEPT ![t] = None]
            /\ evq' = Notify(evq, [kind |-> "rel", task |-> t])
       ELSE UNCHANGED <<owner, evq>>
    /\ markLost' = LoseMarker(t)
    /\ UNCHANGED props

\* EtcdCoordinator.Done: delete the whole tasks/<id> subtree
CoordDone(n, t) ==
    /\ refresh' = [refresh EXCEPT ![n] = @ \ {t}]
    /\ props' = props \ {t}
    /\ owner' = [owner EXCEPT ![t] = None]
    /\ markLost' = LoseMarker(t)
    /\ UNCHANGED evq

\* Client.SubmitTask: Create the props file; fails on a duplicate ID
SubmitTask(t) ==
    /\ budget.submit > 0
    /\ t \notin props
    /\ props' = props \cup {t}
    /\ evq' = Notify(evq, [kind |-> "new", task |-> t])
    /\ Spend("submit")
    /\ UNCHANGED <<owner, cmds, ecStop, refresh, auxVars, consVars, held, markLost, shutAt, closedAt, unitVars>>

\* Client.SubmitCommand: AddChild under the node's commands directory
SubmitCommand(n, c) ==
    /\ budget.cmd > 0
    /\ cmds' = [cmds EXCEPT ![n] = Append(@, c)]
    /\ Spend("cmd")
    /\ UNCHANGED <<props, owner, coordVars, auxVars, consVars, held, markLost, shutAt, closedAt, unitVars>>

\* The broker drops an owner marker whose TTL ran out (or an operator
\* deletes it) while its node still runs the task.
OwnerExpire(t) ==
    /\ budget.expire > 0
    /\ owner[t] # None
    /\ owner' = [owner EXCEPT ![t] = None]
    /\ evq' = Notify(evq, [kind |-> "rel", task |-> t])
    /\ Spend("expire")
    /\ markLost' = LoseMarker(t)
    /\ UNCHANGED <<props, cmds, ecStop, refresh, auxVars, consVars, held, shutAt, closedAt, unitVars>>


\* ------------------------------------------------------------- Consumer

\* a stopTask that, given an ID that is not running, stops every running task
stopTaskAny(n, S) ==
    stopQ[n] \cup {running[n][t] : t \in (IF S \cap RunningSet(n) = {} THEN RunningSet(n) ELSE S \cap RunningSet(n))}

\* a stopTask that starts no goroutine
stopTaskNothing(n, S) == stopQ[n]

\* Consumer.stopTask for each ID of S: an ID found in c.running gets a
\* goroutine that will call its runningtask's stop(); other IDs are logged
stopTask(n, S) == stopQ[n] \cup {running[n][t] : t \in S \cap RunningSet(n)}

\* `go c.Run()`: the goroutine exists and has not yet reached runwg.Add(1)
RunCall(n) ==
    /\ runPc[n] = "idle"
    /\ runPc' = [runPc EXCEPT ![n] = "start"]
    /\ UNCHANGED <<brokerVars, coordVars, auxVars, histVars>>
    /\ UNCHANGED <<cur, stop, closes, running, hwg, runwg, freeze, hs, stopQ, shutPc, againPc>>

\* Run: runwg.Add(1) under runwgL, then start the balance ticker, the
\* watcher and the command poller and enter the main loop.  The ticker has
\* no state of its own here: its timer firing and its send on the balance
\* channel are the rendezvous LoopBalance.
RunBegin(n) ==
    /\ runPc[n] = "start"
    /\ runwg' = [runwg EXCEPT ![n] = @ + 1]
    /\ watchPc' = [watchPc EXCEPT ![n] = "start"]
    /\ pollPc' = [pollPc EXCEPT ![n] = "poll"]
    /\ runPc' = [runPc EXCEPT ![n] = "loop"]
    /\ UNCHANGED <<brokerVars, coordVars, histVars, wtask, pcmd, ign, isend>>
    /\ UNCHANGED <<cur, stop, closes, running, hwg, freeze, hs, stopQ, shutPc, againPc>>

\* main loop, `case <-c.stop: return` (frozen or not): on to the deferred
\* shutdown()
LoopStop(n) ==
    /\ runPc[n] = "loop"
    /\ stop[n]
    /\ runPc' = [runPc EXCEPT ![n] = "close"]
    /\ UNCHANGED <<brokerVars, coordVars, auxVars, histVars>>
    /\ UNCHANGED <<cur, stop, closes, running, hwg, runwg, freeze, hs, stopQ, shutPc, againPc>>

\* Consumer.balance: bal.Balance() gives some IDs; stopTask each
balance(n) ==
    \E rel \in SUBSET Tasks : stopQ' = [stopQ EXCEPT ![n] = stopTask(n, rel)]

\* the balance ticker's timer fires and the main loop takes
\* `case <-balance: c.balance()`: only in the unfrozen select
LoopBalance(n) ==
    /\ runPc[n] = "loop"
    /\ ~freeze[n]
    /\ budget.tick > 0
    /\ Spend("tick")
    /\ balance(n)
    /\ UNCHANGED <<brokerVars, coordVars, held, markLost, shutAt, closedAt, unitVars>>
    /\ UNCHANGED <<watchPc, wtask, pollPc, pcmd, ign, isend>>
    /\ UNCHANGED <<runPc, cur, stop, closes, running, hwg, runwg, freeze, hs, shutPc, againPc>>

\* a main loop whose frozen branch also selects on c.tasks
CanRecvTaskFrozen(n) == runPc[n] = "loop"

\* the main loop may receive from c.tasks: only in the unfrozen select
CanRecvTask(n) == runPc[n] = "loop" /\ ~freeze[n]

\* a main loop that consults the balancer without looking at the ignore list
taskEventUnchecked(n, t) ==
    \E ok \in BOOLEAN :
       IF ok
       THEN /\ runPc' = [runPc EXCEPT ![n] = "claim"]
            /\ cur' = [cur EXCEPT ![n] = t]
            /\ UNCHANGED <<ign, budget>>
       ELSE /\ budget.refuse > 0
            /\ Spend("refuse")
            /\ ign' = [ign EXCEPT ![n][t] = "wait"]
            /\ UNCHANGED <<runPc, cur>>

\* main loop, `case task := <-c.tasks` up to the call of coord.Claim:
\* an ignored ID is dropped; a task the balancer refuses is put on the ignore
\* list; an accepted one goes on to Claim
taskEvent(n, t) ==
    IF ign[n][t] = "wait"
    THEN UNCHANGED <<runPc, cur, ign, budget>>
    ELSE \E ok \in BOOLEAN :
           /\ IF ok
              THEN /\ runPc' = [runPc EXCEPT ![n] = "claim"]
                   /\ cur' = [cur EXCEPT ![n] = t]
                   /\ UNCHANGED <<ign, budget>>
              ELSE /\ budget.refuse > 0
                   /\ Spend("refuse")
                   /\ ign' = [ign EXCEPT ![n][t] = "wait"]
                   /\ UNCHANGED <<runPc, cur>>

\* the task comes from the watcher, blocked in `out <- task`
LoopTaskWatch(n) ==
    /\ CanRecvTask(n)
    /\ Len(hs[n]) < MaxHandlers
    /\ watchPc[n] = "sending"
    /\ watchPc' = [watchPc EXCEPT ![n] = "watching"]
    /\ wtask' = [wtask EXCEPT ![n] = None]
    /\ taskEvent(n, wtask[n])
    /\ UNCHANGED <<brokerVars, coordVars, held, markLost, shutAt, closedAt, unitVars>>
    /\ UNCHANGED <<pollPc, pcmd, isend>>
    /\ UNCHANGED <<stop, closes, running, hwg, runwg, freeze, hs, stopQ, shutPc, againPc>>

\* the task comes from the ignore manager, re-submitting an expired entry
LoopTaskIgnore(n) ==
    /\ CanRecvTask(n)
    /\ Len(hs[n]) < MaxHandlers
    /\ isend[n] # None
    /\ isend' = [isend EXCEPT ![n] = None]
    /\ taskEvent(n, isend[n])
    /\ UNCHANGED <<brokerVars, coordVars, held, markLost, shutAt, closedAt, unitVars>>
    /\ UNCHANGED <<watchPc, wtask, pollPc, pcmd>>
    /\ UNCHANGED <<stop, closes, running, hwg, runwg, freeze, hs, stopQ, shutPc, againPc>>

\* a main loop that goes on to claimed() whatever Claim returned
LoopClaimThenAdmit(n) ==
    /\ runPc[n] = "claim"
    /\ runPc' = [runPc EXCEPT ![n] = "admit"]
    /\ UNCHANGED <<brokerVars, coordVars, auxVars, histVars>>
    /\ UNCHANGED <<cur, stop, closes, running, hwg, runwg, freeze, hs, stopQ, shutPc, againPc>>

\* main loop, `if !c.coord.Claim(tid) { break }`
LoopClaim(n) ==
    /\ runPc[n] = "claim"
    /\ IF ClaimOk(cur[n])
       THEN /\ owner' = [owner EXCEPT ![cur[n]] = n]
            /\ refresh' = [refresh EXCEPT ![n] = @ \cup {cur[n]}]
            /\ held' = [held EXCEPT ![n][cur[n]] = @ + 1]
            /\ markLost' = [markLost EXCEPT ![n] = @ \ {cur[n]}]
            /\ runPc' = [runPc EXCEPT ![n] = "admit"]
            /\ UNCHANGED cur
       ELSE /\ runPc' = [runPc EXCEPT ![n] = "loop"]
            /\ cur' = [cur EXCEPT ![n] = None]
            /\ UNCHANGED <<owner, refresh, held, markLost>>
    /\ UNCHANGED <<props, cmds, ecStop, evq, auxVars, shutAt, closedAt, unitVars, budget>>
    /\ UNCHANGED <<stop, closes, running, hwg, runwg, freeze, hs, stopQ, shutPc, againPc>>

\* a claimed() that does not look at c.stop
AdmitsWhileStopping(n, t) == running[n][t] = 0

\* a claimed() that does not look the ID up in c.running
AdmitsDuplicate(n, t) == ~stop[n]

\* claimed() admits the task: not when c.stop is closed, not when the ID is
\* already in c.running
Admits(n, t) == ~stop[n] /\ running[n][t] = 0

\* a handler goroutine: its task, where it is ("run": inside h.Run, "fin":
\* about to call Done/Release, "hwg": about to hwg.Done(), "exit"), how Run
\* ended, whether stop() has run on its runningtask (Stopped is set), and
\* the finalizer calls it has made
NewHandler(t) == [task |-> t, pc |-> "run", out |-> None, stopped |-> FALSE, rel |-> 0, don |-> 0]

\* Consumer.claimed, the region under runL: check c.stop, check c.running,
\* insert, hwg.Add(1), start the handler goroutine
claimed(n) ==
    /\ runPc[n] = "admit"
    /\ IF Admits(n, cur[n])
       THEN /\ hs' = [hs EXCEPT ![n] = Append(@, NewHandler(cur[n]))]
            /\ running' = [running EXCEPT ![n][cur[n]] = Len(hs[n]) + 1]
            /\ hwg' = [hwg EXCEPT ![n] = @ + 1]
       ELSE UNCHANGED <<hs, running, hwg>>
    /\ runPc' = [runPc EXCEPT ![n] = "loop"]
    /\ cur' = [cur EXCEPT ![n] = None]
    /\ UNCHANGED <<brokerVars, coordVars, auxVars, histVars>>
    /\ UNCHANGED <<stop, closes, runwg, freeze, stopQ, shutPc, againPc>>

\* a handleCommand that drops every command but freeze
handleCommandNoUnfreeze(n, c) ==
    IF c.name = cmdFreeze
    THEN freeze' = [freeze EXCEPT ![n] = TRUE] /\ UNCHANGED stopQ
    ELSE UNCHANGED <<freeze, stopQ>>

\* Consumer.handleCommand
handleCommand(n, c) ==
    CASE c.name = cmdFreeze ->
           /\ freeze' = [freeze EXCEPT ![n] = TRUE]
           /\ UNCHANGED stopQ
      [] c.name = cmdUnfreeze ->
           /\ freeze' = [freeze EXCEPT ![n] = FALSE]
           /\ UNCHANGED stopQ
      [] c.name = cmdBalance ->
           /\ balance(n)
           /\ UNCHANGED freeze
      [] c.name = cmdStopTask ->
           /\ IF hasTask(c)
              THEN stopQ' = [stopQ EXCEPT ![n] = stopTask(n, {c.task})]
              ELSE UNCHANGED stopQ
           /\ UNCHANGED freeze
      [] OTHER -> UNCHANGED <<freeze, stopQ>>

\* main loop, `case cmd, ok := <-cmdChan` with a command (frozen or not)
LoopCommand(n) ==
    /\ runPc[n] = "loop"
    /\ pollPc[n] = "send"
    /\ pollPc' = [pollPc EXCEPT ![n] = "poll"]
    /\ pcmd' = [pcmd EXCEPT ![n] = NoCmd]
    /\ handleCommand(n, pcmd[n])
    /\ UNCHANGED <<brokerVars, coordVars, histVars>>
    /\ UNCHANGED <<watchPc, wtask, ign, isend>>
    /\ UNCHANGED <<runPc, cur, stop, closes, running, hwg, runwg, hs, shutPc, againPc>>

\* a main loop that goes round again when it finds cmdChan closed
LoopCommandClosedContinue(n) ==
    /\ runPc[n] = "loop"
    /\ pollPc[n] = "exit"
    /\ UNCHANGED vars

\* main loop, `case cmd, ok := <-cmdChan` on the closed channel: return
LoopCommandClosed(n) ==
    /\ runPc[n] = "loop"
    /\ pollPc[n] = "exit"
    /\ runPc' = [runPc EXCEPT ![n] = "close"]
    /\ UNCHANGED <<brokerVars, coordVars, auxVars, histVars>>
    /\ UNCHANGED <<cur, stop, closes, running, hwg, runwg, freeze, hs, stopQ, shutPc, againPc>>


\* a shutdown() that goes on to stop the tasks without closing the coordinator
shutdownNoClose(n) ==
    /\ runPc[n] = "close"
    /\ runPc' = [runPc EXCEPT ![n] = "stopall"]
    /\ UNCHANGED <<brokerVars, coordVars, auxVars, histVars>>
    /\ UNCHANGED <<cur, stop, closes, running, hwg, runwg, freeze, hs, stopQ, shutPc, againPc>>

\* Consumer.shutdown, first statement: c.coord.Close()
\* (EtcdCoordinator.Close closes ec.stop; it releases no claim)
shutdownClose(n) ==
    /\ runPc[n] = "close"
    /\ ecStop' = [ecStop EXCEPT ![n] = TRUE]
    /\ closedAt' = [closedAt EXCEPT ![n] = Cardinality(Live(n))]
    /\ runPc' = [runPc EXCEPT ![n] = "stopall"]
    /\ UNCHANGED <<brokerVars, refresh, evq, auxVars, held, markLost, shutAt, budget, unitVars>>
    /\ UNCHANGED <<cur, stop, closes, running, hwg, runwg, freeze, hs, stopQ, shutPc, againPc>>

\* a shutdown() that does not stop the running tasks
shutdownNoStop(n) ==
    /\ runPc[n] = "stopall"
    /\ runPc' = [runPc EXCEPT ![n] = "wait"]
    /\ UNCHANGED <<brokerVars, coordVars, auxVars, histVars>>
    /\ UNCHANGED <<cur, stop, closes, running, hwg, runwg, freeze, hs, stopQ, shutPc, againPc>>

\* Consumer.shutdown: tasks := c.Tasks(); stopTask for each
shutdownStopAll(n) ==
    /\ runPc[n] = "stopall"
    /\ stopQ' = [stopQ EXCEPT ![n] = stopTask(n, RunningSet(n))]
    /\ runPc' = [runPc EXCEPT ![n] = "wait"]
    /\ UNCHANGED <<brokerVars, coordVars, auxVars, histVars>>
    /\ UNCHANGED <<cur, stop, closes, running, hwg, runwg, freeze, hs, shutPc, againPc>>

\* Consumer.shutdown: c.hwg.Wait(); then Run returns and its deferred
\* c.runwg.Done() runs
shutdownWait(n) ==
    /\ runPc[n] = "wait"
    /\ hwg[n] = 0
    /\ runwg' = [runwg EXCEPT ![n] = @ - 1]
    /\ runPc' = [runPc EXCEPT ![n] = "done"]
    /\ UNCHANGED <<brokerVars, coordVars, auxVars, histVars>>
    /\ UNCHANGED <<cur, stop, closes, running, hwg, freeze, hs, stopQ, shutPc, againPc>>

\* Consumer.Shutdown, first statement: c.close() closes c.stop under runL
Shutdown(n) ==
    /\ shutPc[n] = "idle"
    /\ close(n)
    /\ shutAt' = [shutAt EXCEPT ![n] =
          [called |-> TRUE, runStarted |-> runPc[n] # "idle",
           running |-> {running[n][t] : t \in RunningSet(n)}]]
    /\ shutPc' = [shutPc EXCEPT ![n] = "hwg"]
    /\ UNCHANGED <<brokerVars, coordVars, auxVars, held, markLost, closedAt, unitVars, budget>>
    /\ UNCHANGED <<runPc, cur, running, hwg, runwg, freeze, hs, stopQ, againPc>>

\* Consumer.Shutdown: c.hwg.Wait() returns
ShutdownHwgWait(n) ==
    /\ shutPc[n] = "hwg"
    /\ hwg[n] = 0
    /\ shutPc' = [shutPc EXCEPT ![n] = "runwg"]
    /\ UNCHANGED <<brokerVars, coordVars, auxVars, histVars>>
    /\ UNCHANGED <<runPc, cur, stop, closes, running, hwg, runwg, freeze, hs, stopQ, againPc>>

\* Consumer.Shutdown: runwgL.Lock(); runwg.Wait(); runwgL.Unlock(); return
ShutdownRunWait(n) ==
    /\ shutPc[n] = "runwg"
    /\ runwg[n] = 0
    /\ shutPc' = [shutPc EXCEPT ![n] = "returned"]
    /\ UNCHANGED <<brokerVars, coordVars, auxVars, histVars>>
    /\ UNCHANGED <<runPc, cur, stop, closes, running, hwg, runwg, freeze, hs, stopQ, againPc>>

\* --------------------------------------------------- handler goroutines

\* how a handler's Run may end: it returns true or panics at any time; it
\* returns false once Stop has been called on it, or of its own accord
Outcomes(h) ==
    {"true", "panic"}
       \cup (IF h.stopped \/ budget.yield > 0 THEN {"false"} ELSE {})

\* Run ends with out: the handler goroutine goes on to its finalizer
RunEnds(n, i, out) ==
    /\ hs' = [hs EXCEPT ![n][i].pc = "fin", ![n][i].out = out]
    /\ IF out = "false" /\ ~hs[n][i].stopped
       THEN Spend("yield")
       ELSE UNCHANGED budget

\* a runTask whose recover leaves done as it was: false after a panic
doneUnlessPanic(out) == out = "true"

\* runTask's result: what Run returned, and true after a recovered panic
done(out) == out # "false"

\* a handler goroutine that releases whatever Run returned
FinalizerRelease(out) == "release"

\* the handler goroutine's choice of finalizer: Done if done, else Release
Finalizer(out) == IF done(out) THEN "done" ELSE "release"

\* a runTask without the deferred delete from c.running
runTaskNoDelete(n, i) ==
    /\ i \in DOMAIN hs[n]
    /\ hs[n][i].pc = "run"
    /\ \E out \in Outcomes(hs[n][i]) : RunEnds(n, i, out)
    /\ UNCHANGED <<brokerVars, coordVars, auxVars, held, markLost, shutAt, closedAt, unitVars>>
    /\ UNCHANGED <<runPc, cur, stop, closes, running, hwg, runwg, freeze, stopQ, shutPc, againPc>>

\* Consumer.runTask: h.Run returns or panics; the deferred function deletes
\* the ID from c.running under runL
runTask(n, i) ==
    /\ i \in DOMAIN hs[n]
    /\ hs[n][i].pc = "run"
    /\ \E out \in Outcomes(hs[n][i]) : RunEnds(n, i, out)
    /\ running' = [running EXCEPT ![n][hs[n][i].task] = 0]
    /\ UNCHANGED <<brokerVars, coordVars, auxVars, held, markLost, shutAt, closedAt, unitVars>>
    /\ UNCHANGED <<runPc, cur, stop, closes, hwg, runwg, freeze, stopQ, shutPc, againPc>>

\* the handler goroutine after runTask: c.coord.Done(tid) or
\* c.coord.Release(tid)
HandlerFinalize(n, i) ==
    /\ i \in DOMAIN hs[n]
    /\ hs[n][i].pc = "fin"
    /\ LET t == hs[n][i].task IN
       IF Finalizer(hs[n][i].out) = "done"
       THEN /\ CoordDone(n, t)
            /\ hs' = [hs EXCEPT ![n][i].pc = "hwg", ![n][i].don = @ + 1]
       ELSE /\ CoordRelease(n, t)
            /\ hs' = [hs EXCEPT ![n][i].pc = "hwg", ![n][i].rel = @ + 1]
    /\ held' = [held EXCEPT ![n][hs[n][i].task] = @ - 1]
    /\ UNCHANGED <<cmds, ecStop, auxVars, shutAt, closedAt, unitVars, budget>>
    /\ UNCHANGED <<runPc, cur, stop, closes, running, hwg, runwg, freeze, stopQ, shutPc, againPc>>

\* the handler goroutine's deferred c.hwg.Done(); the goroutine is gone, and
\* so is what a stop() still pending on its runningtask could change
HandlerExit(n, i) ==
    /\ i \in DOMAIN hs[n]
    /\ hs[n][i].pc = "hwg"
    /\ hs' = [hs EXCEPT ![n][i].pc = "exit", ![n][i].out = None, ![n][i].stopped = FALSE]
    /\ stopQ' = [stopQ EXCEPT ![n] = @ \ {i}]
    /\ hwg' = [hwg EXCEPT ![n] = @ - 1]
    /\ UNCHANGED <<brokerVars, coordVars, auxVars, histVars>>
    /\ UNCHANGED <<runPc, cur, stop, closes, running, runwg, freeze, shutPc, againPc>>

\* the goroutine started by stopTask: runningtask.stop() records Stopped on
\* the first call and calls h.Stop()
StopRun(n, i) ==
    /\ i \in stopQ[n]
    /\ stopQ' = [stopQ EXCEPT ![n] = @ \ {i}]
    /\ hs' = [hs EXCEPT ![n][i].stopped = TRUE]
    /\ UNCHANGED <<brokerVars, coordVars, auxVars, histVars>>
    /\ UNCHANGED <<runPc, cur, stop, closes, running, hwg, runwg, freeze, shutPc, againPc>>


\* ------------------------------------------ goroutines started by Run

\* Consumer.watcher calls coord.Watch.  A closed coordinator returns nil at
\* once and the deferred c.close() closes c.stop; otherwise the GET lists
\* the existing tasks that have no owner marker, in key order
WatchStart(n) ==
    /\ watchPc[n] = "start"
    /\ IF ecStop[n]
       THEN /\ watchPc' = [watchPc EXCEPT ![n] = "exit"]
            /\ close(n)
            /\ UNCHANGED evq
       ELSE /\ watchPc' = [watchPc EXCEPT ![n] = "watching"]
            /\ evq' = [evq EXCEPT ![n] =
                  [j \in 1..Len(SortedSeq({t \in props : owner[t] = None})) |->
                     [kind |-> "new",
                      task |-> SortedSeq({t \in props : owner[t] = None})[j]]]]
            /\ UNCHANGED <<stop, closes>>
    /\ UNCHANGED <<brokerVars, ecStop, refresh, histVars>>
    /\ UNCHANGED <<wtask, pollPc, pcmd, ign, isend>>
    /\ UNCHANGED <<runPc, cur, running, hwg, runwg, freeze, hs, stopQ, shutPc, againPc>>

\* Watch takes the next response and parses it; a task found is then sent
\* on c.tasks (the watcher blocks in that send)
WatchParse(n) ==
    /\ watchPc[n] = "watching"
    /\ ~ecStop[n]
    /\ evq[n] # <<>>
    /\ evq' = [evq EXCEPT ![n] = Tail(@)]
    /\ IF parseTask(Head(evq[n]))
       THEN /\ watchPc' = [watchPc EXCEPT ![n] = "sending"]
            /\ wtask' = [wtask EXCEPT ![n] = Head(evq[n]).task]
       ELSE UNCHANGED <<watchPc, wtask>>
    /\ UNCHANGED <<brokerVars, ecStop, refresh, histVars, consVars>>
    /\ UNCHANGED <<pollPc, pcmd, ign, isend>>

\* a watcher that returns without its deferred c.close()
watcherExitNoClose(n) ==
    /\ watchPc' = [watchPc EXCEPT ![n] = "exit"]
    /\ wtask' = [wtask EXCEPT ![n] = None]
    /\ evq' = [evq EXCEPT ![n] = <<>>]
    /\ UNCHANGED <<stop, closes>>

\* Watch returns: c.watcher's deferred c.close() closes c.stop
watcherExit(n) ==
    /\ watchPc' = [watchPc EXCEPT ![n] = "exit"]
    /\ wtask' = [wtask EXCEPT ![n] = None]
    /\ evq' = [evq EXCEPT ![n] = <<>>]
    /\ close(n)

\* Watch returns nil because the coordinator was closed
WatchClosed(n) ==
    /\ watchPc[n] \in {"watching", "sending"}
    /\ ecStop[n]
    /\ watcherExit(n)
    /\ UNCHANGED <<brokerVars, ecStop, refresh, histVars>>
    /\ UNCHANGED <<pollPc, pcmd, ign, isend>>
    /\ UNCHANGED <<runPc, cur, running, hwg, runwg, freeze, hs, stopQ, shutPc, againPc>>

\* Watch returns an error (the broker is unreachable)
WatchError(n) ==
    /\ watchPc[n] = "watching"
    /\ ~ecStop[n]
    /\ budget.werr > 0
    /\ Spend("werr")
    /\ watcherExit(n)
    /\ UNCHANGED <<brokerVars, ecStop, refresh, held, markLost, shutAt, closedAt, unitVars>>
    /\ UNCHANGED <<pollPc, pcmd, ign, isend>>
    /\ UNCHANGED <<runPc, cur, running, hwg, runwg, freeze, hs, stopQ, shutPc, againPc>>

\* command poller: coord.Command() returns the oldest command (which
\* parseCommand has deleted from the broker); the poller goes on to send it
PollCommand(n) ==
    /\ pollPc[n] = "poll"
    /\ ~ecStop[n]
    /\ cmds[n] # <<>>
    /\ pcmd' = [pcmd EXCEPT ![n] = Head(cmds[n])]
    /\ cmds' = [cmds EXCEPT ![n] = Tail(@)]
    /\ pollPc' = [pollPc EXCEPT ![n] = "send"]
    /\ UNCHANGED <<props, owner, coordVars, histVars, consVars>>
    /\ UNCHANGED <<watchPc, wtask, ign, isend>>

\* command poller: coord.Command() returns (nil, nil) on a closed
\* coordinator; the poller returns and its defer closes cmdChan
PollClosed(n) ==
    /\ pollPc[n] = "poll"
    /\ ecStop[n]
    /\ pollPc' = [pollPc EXCEPT ![n] = "exit"]
    /\ UNCHANGED <<brokerVars, coordVars, histVars, consVars>>
    /\ UNCHANGED <<watchPc, wtask, pcmd, ign, isend>>

\* command poller: coord.Command() returns an error, or a nil command,
\* from a coordinator that was not closed; the poller returns and its defer
\* closes cmdChan
PollError(n) ==
    /\ pollPc[n] = "poll"
    /\ ~ecStop[n]
    /\ pollPc' = [pollPc EXCEPT ![n] = "exit"]
    /\ UNCHANGED <<brokerVars, coordVars, histVars, consVars>>
    /\ UNCHANGED <<watchPc, wtask, pcmd, ign, isend>>

\* command poller, blocked sending: `case <-c.stop: return`
PollStop(n) ==
    /\ pollPc[n] = "send"
    /\ stop[n]
    /\ pollPc' = [pollPc EXCEPT ![n] = "exit"]
    /\ pcmd' = [pcmd EXCEPT ![n] = NoCmd]
    /\ UNCHANGED <<brokerVars, coordVars, histVars, consVars>>
    /\ UNCHANGED <<watchPc, wtask, ign, isend>>

\* ------------------------------------------------------ ignore manager

\* the deadline of an ignore entry passes
IgnoreDeadline(n, t) ==
    /\ ign[n][t] = "wait"
    /\ ign' = [ign EXCEPT ![n][t] = "due"]
    /\ UNCHANGED <<brokerVars, coordVars, consVars, histVars>>
    /\ UNCHANGED <<watchPc, wtask, pollPc, pcmd, isend>>

\* a timer that removes the expired entry without re-submitting its task
IgnoreFireForget(n, t) ==
    /\ ign[n][t] = "due"
    /\ isend[n] = None
    /\ ~stop[n]
    /\ ign' = [ign EXCEPT ![n][t] = "no"]
    /\ UNCHANGED <<brokerVars, coordVars, consVars, histVars>>
    /\ UNCHANGED <<watchPc, wtask, pollPc, pcmd, isend>>

\* the manager's timer fires: the expired entry is removed and the manager
\* goes on to re-submit its task on c.tasks
IgnoreFire(n, t) ==
    /\ ign[n][t] = "due"
    /\ isend[n] = None
    /\ ~stop[n]
    /\ ign' = [ign EXCEPT ![n][t] = "no"]
    /\ isend' = [isend EXCEPT ![n] = t]
    /\ UNCHANGED <<brokerVars, coordVars, consVars, histVars>>
    /\ UNCHANGED <<watchPc, wtask, pollPc, pcmd>>

\* the manager, blocked re-submitting, sees c.stop closed and gives up
IgnoreStop(n) ==
    /\ isend[n] # None
    /\ stop[n]
    /\ isend' = [isend EXCEPT ![n] = None]
    /\ UNCHANGED <<brokerVars, coordVars, consVars, histVars>>
    /\ UNCHANGED <<watchPc, wtask, pollPc, pcmd, ign>>

\* ------------------------------------------------------------------ Lost

\* The coordinator finds it no longer owns a marker it refreshes: it drops
\* the claim and calls ctx.Lost(taskID), which is Consumer.stopTask
Lost(n, t) ==
    /\ t \in refresh[n]
    /\ owner[t] # n
    /\ refresh' = [refresh EXCEPT ![n] = @ \ {t}]
    /\ stopQ' = [stopQ EXCEPT ![n] = stopTask(n, {t})]
    /\ UNCHANGED <<brokerVars, ecStop, evq, auxVars, histVars>>
    /\ UNCHANGED <<runPc, cur, stop, closes, running, hwg, runwg, freeze, hs, shutPc, againPc>>

\* ------------------------------------------------------- specifications

\* the steps of node n's consumer: Run, its goroutines and its handlers
ConsumerStep(n) ==
    \/ RunCall(n) \/ RunBegin(n)
    \/ LoopStop(n) \/ LoopTaskWatch(n)
    \/ LoopClaim(n) \/ claimed(n) \/ LoopCommand(n) \/ LoopCommandClosed(n)
    \/ shutdownClose(n) \/ shutdownStopAll(n) \/ shutdownWait(n)
    \/ \E i \in DOMAIN hs[n] : runTask(n, i) \/ HandlerFinalize(n, i) \/ HandlerExit(n, i)
    \/ \E i \in stopQ[n] : StopRun(n, i)
    \/ WatchStart(n) \/ WatchParse(n) \/ WatchClosed(n)
    \/ PollCommand(n) \/ PollClosed(n) \/ PollStop(n)

\* One consumer on node n1; clients submit tasks and commands; Watch may
\* fail; Shutdown may be called at any time.
Init ==
    InitWith([submit |-> MaxSubmit, cmd |-> MaxCmd, expire |-> 0,
              refuse |-> 0, tick |-> 0, werr |-> MaxWatchErr, yield |-> MaxYield])

Next ==
    \/ ConsumerStep("n1") \/ WatchError("n1")
    \/ Shutdown("n1") \/ ShutdownHwgWait("n1") \/ ShutdownRunWait("n1")
    \/ \E t \in Tasks : SubmitTask(t)
    \/ \E c \in Commands : SubmitCommand("n1", c)

Spec == Init /\ [][Next]_vars

\* The same consumer with an operator who sends freeze and unfreeze commands.
FreezeCommands == {c \in Commands : c.name \in {cmdFreeze, cmdUnfreeze}}

InitFrozen ==
    InitWith([submit |-> MaxSubmit, cmd |-> MaxFreezeCmd, expire |-> 0,
              refuse |-> 0, tick |-> 0, werr |-> 0, yield |-> 0])

NextFrozen ==
    \/ ConsumerStep("n1")
    \/ Shutdown("n1") \/ ShutdownHwgWait("n1") \/ ShutdownRunWait("n1")
    \/ \E t \in Tasks : SubmitTask(t)
    \/ \E c \in FreezeCommands : SubmitCommand("n1", c)

SpecFrozen == InitFrozen /\ [][NextFrozen]_vars

\* The consumer with its balance ticker, under the scheduling Go gives it:
\* a goroutine that can take a step eventually takes it, and a handler
\* returns from Run once Stop has been called on it.  A handler that was
\* never stopped may run forever.
InitLive ==
    InitWith([submit |-> MaxLiveSubmit, cmd |-> MaxCmd, expire |-> 0,
              refuse |-> 0, tick |-> MaxTick, werr |-> 0, yield |-> 0])

NextLive ==
    \/ ConsumerStep("n1") \/ LoopBalance("n1")
    \/ Shutdown("n1") \/ ShutdownHwgWait("n1") \/ ShutdownRunWait("n1")
    \/ \E t \in Tasks : SubmitTask(t)
    \/ \E c \in Commands : SubmitCommand("n1", c)

\* the handler i of n returns from Run after Stop was called on it
runTaskStopped(n, i) ==
    /\ i \in DOMAIN hs[n]
    /\ hs[n][i].stopped
    /\ runTask(n, i)

Fairness(n) ==
    /\ WF_vars(RunBegin(n))
    /\ WF_vars(LoopStop(n))
    /\ WF_vars(LoopClaim(n))
    /\ WF_vars(claimed(n))
    /\ WF_vars(shutdownClose(n))
    /\ WF_vars(shutdownStopAll(n))
    /\ WF_vars(shutdownWait(n))
    /\ WF_vars(ShutdownHwgWait(n))
    /\ WF_vars(ShutdownRunWait(n))
    /\ WF_vars(WatchClosed(n))
    /\ WF_vars(PollClosed(n))
    /\ \A i \in 1..MaxHandlers :
          /\ WF_vars(StopRun(n, i))
          /\ WF_vars(runTaskStopped(n, i))
          /\ WF_vars(HandlerFinalize(n, i))
          /\ WF_vars(HandlerExit(n, i))

SpecLive == InitLive /\ [][NextLive]_vars /\ Fairness("n1")

\* A cluster of two consumers on one broker: clients submit tasks, and owner
\* markers may expire or be deleted under a running handler.  No commands
\* are sent and no consumer is shut down.
InitCluster ==
    InitWith([submit |-> MaxClusterSubmit, cmd |-> 0, expire |-> MaxExpire,
              refuse |-> 0, tick |-> 0, werr |-> 0, yield |-> 0])

ClusterStep(n) ==
    \/ RunCall(n) \/ RunBegin(n)
    \/ LoopTaskWatch(n) \/ LoopClaim(n) \/ claimed(n)
    \/ \E i \in DOMAIN hs[n] : runTask(n, i) \/ HandlerFinalize(n, i) \/ HandlerExit(n, i)
    \/ \E i \in stopQ[n] : StopRun(n, i)
    \/ WatchStart(n) \/ WatchParse(n)
    \/ \E t \in Tasks : Lost(n, t)

NextCluster ==
    \/ \E n \in Nodes : ClusterStep(n)
    \/ \E t \in Tasks : SubmitTask(t) \/ OwnerExpire(t)

SpecCluster == InitCluster /\ [][NextCluster]_vars

\* ----------------------------------------------------------------- claims

\* Run has returned and every handler goroutine of n has exited: nothing of
\* the consumer is left that could call the coordinator
Quiescent(n) == runPc[n] = "done" /\ Live(n) = {}

\* C1: every Claim that returned true is followed by exactly one Release or
\* Done: once the consumer is quiescent no granted claim is left without
\* its finalizer.
C1_EveryClaimFinalized ==
    \A n \in Nodes : \A t \in Tasks : Quiescent(n) => held[n][t] = 0

\* C2: a handler goroutine calls no finalizer before Run has returned, and
\* once it is past the call it has made exactly one: Done if Run returned
\* true (or panicked), Release if Run returned false.
C2_OneFinalizer ==
    \A n \in Nodes : \A i \in DOMAIN hs[n] :
       LET h == hs[n][i] IN
       /\ h.pc \in {"run", "fin"} => h.rel = 0 /\ h.don = 0
       /\ h.pc \in {"hwg", "exit"} => h.rel + h.don = 1
       /\ h.pc = "hwg" /\ h.out = "true" => h.don = 1
       /\ h.pc = "hwg" /\ h.out = "false" => h.rel = 1

\* handlers of n1 are past their finalizer after Run returned true for one
\* and false for another
C2_Witness ==
    \E i, j \in DOMAIN hs["n1"] :
       /\ hs["n1"][i].pc = "hwg" /\ hs["n1"][i].out = "true" /\ hs["n1"][i].don = 1
       /\ hs["n1"][j].pc = "hwg" /\ hs["n1"][j].out = "false" /\ hs["n1"][j].rel = 1

\* C5: from a state in which c.stop is closed no step adds an entry to
\* c.running or increments hwg.
C5_NoAdmissionAfterStop ==
    [][\A n \in Nodes : stop[n] =>
          /\ \A t \in Tasks : running'[n][t] \in {0, running[n][t]}
          /\ hwg'[n] <= hwg[n]]_vars

\* c.stop was closed while the main loop held a fresh successful Claim, and
\* claimed() has returned without admitting the task
C5_Witness ==
    /\ stop["n1"]
    /\ runPc["n1"] \in {"loop", "close", "stopall", "wait", "done"}
    /\ \E t \in Tasks :
         /\ held["n1"][t] > 0
         /\ running["n1"][t] = 0
         /\ \A i \in Live("n1") : hs["n1"][i].task # t

\* a call of Shutdown made after Run was started has returned
ShutdownReturned(n) == shutPc[n] = "returned" /\ shutAt[n].runStarted

C7_ShutdownAwaitsRun ==
    \A n \in Nodes : ShutdownReturned(n) => runPc[n] = "done"

\* C8 as stated: the coordinator is closed only after every handler
\* goroutine has exited.
C8_CloseLast ==
    \A n \in Nodes : closedAt[n] <= 0

\* C8, amended: shutdown() closes the coordinator first, then issues the
\* stops, then awaits the handlers: the coordinator is closed from the
\* moment the stops are issued, and Run returns only with hwg at zero and
\* c.running empty.
C8_CloseFirst ==
    \A n \in Nodes :
       /\ runPc[n] \in {"stopall", "wait", "done"} => ecStop[n] /\ closedAt[n] >= 0
       /\ runPc[n] = "done" => hwg[n] = 0 /\ RunningSet(n) = {}

\* Run has returned after a shutdown() that closed the coordinator while
\* handlers were live
C8_Witness == runPc["n1"] = "done" /\ closedAt["n1"] > 0

\* C10: a step from a state in which the consumer is frozen takes no task
\* from c.tasks, leaves the main loop outside its CanClaim/Claim/claimed
\* path, and adds nothing to c.running.
C10_FrozenTakesNoTask ==
    [][\A n \in Nodes : freeze[n] =>
          /\ runPc[n] \notin {"claim", "admit"}
          /\ runPc'[n] \notin {"claim", "admit"}
          /\ watchPc[n] = "sending" =>
                \/ watchPc'[n] = "sending" /\ wtask'[n] = wtask[n]
                \/ watchPc'[n] = "exit"
          /\ ign'[n] = ign[n]
          /\ \A t \in Tasks :
                /\ running'[n][t] \in {0, running[n][t]}
                /\ held'[n][t] <= held[n][t]
          /\ hwg'[n] <= hwg[n]]_vars

\* the consumer is frozen with a candidate task waiting on c.tasks
C10_Witness ==
    /\ freeze["n1"]
    /\ runPc["n1"] = "loop"
    /\ watchPc["n1"] = "sending"

\* the consumer was frozen and then unfrozen; it has since admitted a task
C10_WitnessUnfrozen ==
    /\ ~freeze["n1"]
    /\ budget.cmd = 0
    /\ cmds["n1"] = <<>> /\ pcmd["n1"] = NoCmd
    /\ RunningSet("n1") # {}

C4_ExclusiveClaim ==
    [][\A n \in Nodes :
          /\ runPc[n] = "claim" /\ runPc'[n] # "claim" =>
                IF owner[cur[n]] = None
                THEN runPc'[n] = "admit" /\ owner'[cur[n]] = n
                ELSE /\ runPc'[n] = "loop"
                     /\ owner' = owner
                     /\ running'[n] = running[n]
          /\ \A t \in Tasks :
                running'[n][t] \notin {0, running[n][t]} =>
                   runPc[n] = "admit" /\ cur[n] = t
          /\ \A t \in Tasks : \A m \in Nodes \ {n} :
                Granted(n, t) /\ Granted(m, t) =>
                   t \in markLost[n] \cup markLost[m]]_vars

\* both consumers received the candidate; n1's Claim returned true and n1
\* runs the task; n2 is in its Claim of the same task, no marker having been
\* lost
C4_Witness ==
    \E t \in Tasks :
       /\ running["n1"][t] # 0 /\ owner[t] = "n1"
       /\ runPc["n2"] = "claim" /\ cur["n2"] = t
       /\ budget.expire = MaxExpire

InitOperator ==
    InitWith([submit |-> MaxSubmit, cmd |-> MaxOpCmd, expire |-> 0,
              refuse |-> 0, tick |-> MaxTick, werr |-> 0, yield |-> 0])

OperatorStep(n) ==
    \/ RunCall(n) \/ RunBegin(n)
    \/ LoopTaskWatch(n) \/ LoopClaim(n) \/ claimed(n)
    \/ LoopCommand(n) \/ LoopBalance(n)
    \/ \E i \in DOMAIN hs[n] : runTask(n, i) \/ HandlerFinalize(n, i) \/ HandlerExit(n, i)
    \/ \E i \in stopQ[n] : StopRun(n, i)
    \/ WatchStart(n) \/ WatchParse(n)
    \/ PollCommand(n)

NextOperator ==
    \/ OperatorStep("n1")
    \/ \E t \in Tasks : SubmitTask(t)
    \/ \E c \in Commands : SubmitCommand("n1", c)

SpecOperator == InitOperator /\ [][NextOperator]_vars

\* the step is one in which the main loop of n calls c.balance(), and with
\* it bal.Balance(): on a tick of the balance channel or on a run_balance
\* command
BalanceInvoked(n) ==
    \/ LoopBalance(n)
    \/ LoopCommand(n) /\ pcmd[n].name = cmdBalance

\* C11: no step taken while the consumer is frozen invokes bal.Balance or
\* stops a task for rebalancing, whether the trigger is the balance timer
\* or a run_balance command.
C11_NoBalanceWhileFrozen ==
    [][\A n \in Nodes : freeze[n] => ~BalanceInvoked(n)]_vars

\* The operator's consumer under Go's scheduling: the command poller and the
\* main loop take the steps they can take.
FairnessOperator(n) ==
    /\ WF_vars(PollCommand(n))
    /\ WF_vars(LoopCommand(n))
    /\ WF_vars(LoopTaskWatch(n))
    /\ WF_vars(LoopClaim(n))
    /\ WF_vars(claimed(n))

SpecOperatorLive == SpecOperator /\ FairnessOperator("n1")

\* the commands of n not yet handled by the main loop, oldest first
PendingCommands(n) ==
    (IF pcmd[n] = NoCmd THEN <<>> ELSE <<pcmd[n]>>) \o cmds[n]

\* the last command the operator will send to n is an unfreeze, and the
\* main loop has not handled it yet
UnfreezePending(n) ==
    /\ budget.cmd = 0
    /\ PendingCommands(n) # <<>>
    /\ PendingCommands(n)[Len(PendingCommands(n))].name = cmdUnfreeze

\* the watcher of n is blocked offering t on c.tasks while n is frozen
OfferedWhileFrozen(n, t) ==
    /\ freeze[n]
    /\ runPc[n] = "loop"
    /\ watchPc[n] = "sending" /\ wtask[n] = t
    /\ Len(hs[n]) < MaxHandlers

\* C12: a task offered while the consumer is frozen is taken by the main
\* loop once the unfreeze command has been handled, and a taken task whose
\* Claim succeeds (no marker exists) is admitted to c.running.
C12_OfferedTaskNotLost ==
    \A t \in Tasks :
       /\ (OfferedWhileFrozen("n1", t) /\ UnfreezePending("n1"))
             ~> (runPc["n1"] = "claim" /\ cur["n1"] = t)
       /\ (runPc["n1"] = "claim" /\ cur["n1"] = t /\ owner[t] = None)
             ~> (running["n1"][t] # 0)

\* t1 waits on c.tasks of the frozen consumer and the unfreeze command is
\* in the poller's hands
C12_Witness ==
    /\ OfferedWhileFrozen("n1", "t1")
    /\ UnfreezePending("n1")
    /\ pcmd["n1"].name = cmdUnfreeze

\* ------------------------------------------------------ handler panics

\* C13: a panic of a handler's Run stays in its goroutine: its entry is out
\* of c.running once runTask has returned, the goroutine calls Done and not
\* Release, hwg counts exactly the handler goroutines that have not exited
\* (so the panicked one is counted out at its exit), and the step in which
\* Run panics changes nothing of the main loop, the stop signal or the
\* other goroutines started by Run.
C13_PanicContained ==
    /\ [](\A n \in Nodes :
            /\ hwg[n] = Cardinality(Live(n))
            /\ \A i \in DOMAIN hs[n] :
                 hs[n][i].out = "panic" =>
                    /\ running[n][hs[n][i].task] # i
                    /\ hs[n][i].rel = 0
                    /\ hs[n][i].pc = "hwg" => hs[n][i].don = 1)
    /\ [][\A n \in Nodes : \A i \in DOMAIN hs[n] :
            (i \in DOMAIN hs'[n] /\ hs[n][i].pc = "run" /\ hs'[n][i].out = "panic")
               => /\ runPc' = runPc /\ cur' = cur /\ stop' = stop
                  /\ freeze' = freeze /\ hwg' = hwg
                  /\ watchPc' = watchPc /\ pollPc' = pollPc
                  /\ \A j \in DOMAIN hs[n] \ {i} : hs'[n][j] = hs[n][j]]_vars

\* a handler of n1 has panicked and its goroutine has called Done; the main
\* loop, still running, has since taken another task and is in its Claim
C13_Witness ==
    \E i \in DOMAIN hs["n1"] :
       /\ hs["n1"][i].out = "panic" /\ hs["n1"][i].pc = "hwg"
       /\ hs["n1"][i].don = 1
       /\ ~stop["n1"]
       /\ runPc["n1"] = "claim" /\ cur["n1"] # hs["n1"][i].task

\* ------------------------------------------------------ Watch returns

\* The consumer under Go's scheduling, with a Watch that may fail.
InitWatchLive ==
    InitWith([submit |-> MaxLiveSubmit, cmd |-> MaxCmd, expire |-> 0,
              refuse |-> 0, tick |-> MaxTick, werr |-> MaxWatchErr, yield |-> 0])

NextWatchLive == NextLive \/ WatchError("n1")

SpecWatchLive == InitWatchLive /\ [][NextWatchLive]_vars /\ Fairness("n1")

InitLost ==
    InitWith([submit |-> MaxSubmit, cmd |-> 0, expire |-> MaxLostExpire,
              refuse |-> 0, tick |-> 0, werr |-> 0, yield |-> 0])

NextLost ==
    \/ ClusterStep("n1")
    \/ \E t \in Tasks : SubmitTask(t) \/ OwnerExpire(t)

FairnessLost(n) == \A i \in 1..MaxHandlers : WF_vars(StopRun(n, i))

SpecLost == InitLost /\ [][NextLost]_vars /\ FairnessLost("n1")

\* C15: a Lost(t) for a task in c.running starts the goroutine that calls
\* Stop on t's handler, and that call eventually happens unless the handler
\* goroutine has exited before; an entry leaves c.running only in the step
\* in which its handler's Run returns; and a Lost(t) for an ID that is not
\* in c.running changes nothing of the consumer.
C15_LostStopsHandler ==
    /\ [][\A n \in Nodes : \A t \in Tasks :
            /\ Lost(n, t) =>
                  IF running[n][t] # 0
                  THEN running[n][t] \in stopQ'[n] /\ running' = running
                  ELSE consVars' = consVars
            /\ running[n][t] # 0 /\ running'[n][t] # running[n][t] =>
                  /\ running'[n][t] = 0
                  /\ hs[n][running[n][t]].pc = "run"
                  /\ hs'[n][running[n][t]].pc = "fin"]_vars
    /\ \A n \in Nodes : \A i \in 1..MaxHandlers :
          (i \in stopQ[n])
             ~> (i \in DOMAIN hs[n] /\ (hs[n][i].stopped \/ hs[n][i].pc = "exit"))

\* n1's marker of a task expired, its coordinator reported the task lost,
\* and Stop has been called on the handler, which is still in c.running
C15_Witness ==
    \E t \in Tasks :
       /\ t \in markLost["n1"]
       /\ t \notin refresh["n1"]
       /\ running["n1"][t] # 0
       /\ hs["n1"][running["n1"][t]].stopped

\* ------------------------------------------------------- ignored tasks

\* One consumer whose balancer may refuse a task; the ignore manager keeps
\* the refused tasks and re-submits them; an owner marker may expire;
\* Shutdown may be called at any time.  No commands are sent.
InitIgnore ==
    InitWith([submit |-> MaxSubmit, cmd |-> 0, expire |-> MaxExpire,
              refuse |-> MaxRefuse, tick |-> 0, werr |-> 0, yield |-> 0])

IgnoreStep(n) ==
    \/ RunCall(n) \/ RunBegin(n)
    \/ LoopStop(n) \/ LoopTaskWatch(n) \/ LoopTaskIgnore(n)
    \/ LoopClaim(n) \/ claimed(n)
    \/ shutdownClose(n) \/ shutdownStopAll(n) \/ shutdownWait(n)
    \/ \E i \in DOMAIN hs[n] : runTask(n, i) \/ HandlerFinalize(n, i) \/ HandlerExit(n, i)
    \/ \E i \in stopQ[n] : StopRun(n, i)
    \/ WatchStart(n) \/ WatchParse(n) \/ WatchClosed(n)
    \/ \E t \in Tasks : IgnoreDeadline(n, t) \/ IgnoreFire(n, t)
    \/ IgnoreStop(n)

NextIgnore ==
    \/ IgnoreStep("n1")
    \/ Shutdown("n1") \/ ShutdownHwgWait("n1") \/ ShutdownRunWait("n1")
    \/ \E t \in Tasks : SubmitTask(t) \/ OwnerExpire(t)

\* time passes and the manager's timer fires; the main loop gets back to
\* its select and receives what is sent on c.tasks
FairnessIgnore(n) ==
    /\ \A t \in Tasks : WF_vars(IgnoreDeadline(n, t)) /\ WF_vars(IgnoreFire(n, t))
    /\ WF_vars(LoopTaskIgnore(n))
    /\ WF_vars(LoopClaim(n))
    /\ WF_vars(claimed(n))

SpecIgnore == InitIgnore /\ [][NextIgnore]_vars /\ FairnessIgnore("n1")

\* the main loop of n takes task t off c.tasks in this step
TakesTask(n, t) ==
    \/ LoopTaskWatch(n) /\ wtask[n] = t
    \/ LoopTaskIgnore(n) /\ isend[n] = t

\* C16: when the main loop takes a task the balancer refuses, it does not
\* go on to Claim and the task is on the ignore list; when it takes a task
\* that is on the ignore list with its deadline still to come, it drops it
\* without consulting the balancer (no refusal, no change of the list) and
\* without going on to Claim; and no task is claimed or admitted to
\* c.running while it is on the ignore list with its deadline to come.
C16_RefusedTaskIgnored ==
    /\ [][\A n \in Nodes : \A t \in Tasks :
            /\ TakesTask(n, t) /\ budget'.refuse < budget.refuse =>
                  runPc'[n] = "loop" /\ ign'[n][t] = "wait" /\ held' = held
            /\ TakesTask(n, t) /\ ign[n][t] = "wait" =>
                  /\ runPc'[n] = "loop" /\ cur' = cur
                  /\ ign' = ign /\ budget' = budget /\ held' = held
            /\ ign[n][t] = "wait" =>
                  /\ held'[n][t] <= held[n][t]
                  /\ running'[n][t] \in {0, running[n][t]}]_vars
    /\ [](\A n \in Nodes : \A t \in Tasks :
            ign[n][t] = "wait" => ~(runPc[n] \in {"claim", "admit"} /\ cur[n] = t))

\* t1 is on n1's ignore list, its deadline to come, and the watcher offers
\* t1 again
C16_Witness ==
    /\ ign["n1"]["t1"] = "wait"
    /\ watchPc["n1"] = "sending" /\ wtask["n1"] = "t1"
    /\ runPc["n1"] = "loop" /\ ~stop["n1"]

\* the consumer has started as many handler goroutines as the model allows
AtMaxHandlers(n) == Len(hs[n]) >= MaxHandlers

InitSubmit ==
    InitWith([submit |-> MaxSubmit, cmd |-> 0, expire |-> 0,
              refuse |-> 0, tick |-> 0, werr |-> 0, yield |-> 0])

SubmitStep(n) ==
    \/ RunCall(n) \/ RunBegin(n)
    \/ LoopTaskWatch(n) \/ LoopClaim(n) \/ claimed(n)
    \/ \E i \in DOMAIN hs[n] : runTask(n, i) \/ HandlerFinalize(n, i) \/ HandlerExit(n, i)
    \/ WatchStart(n) \/ WatchParse(n)

NextSubmit ==
    \/ SubmitStep("n1")
    \/ \E t \in Tasks : SubmitTask(t)

FairnessSubmit(n) ==
    /\ WF_vars(RunBegin(n))
    /\ WF_vars(WatchStart(n))
    /\ WF_vars(WatchParse(n))
    /\ WF_vars(LoopTaskWatch(n))
    /\ WF_vars(LoopClaim(n))
    /\ WF_vars(claimed(n))

SpecSubmit == InitSubmit /\ [][NextSubmit]_vars /\ FairnessSubmit("n1")

\* the tasks whose handler's Run is executing on n
Executing(n) == {hs[n][i].task : i \in {j \in DOMAIN hs[n] : hs[n][j].pc = "run"}}

\* C18: a task that is in the broker without an owner marker, Run having
\* been started, is eventually claimed and its handler's Run invoked; and
\* Tasks() lists exactly the tasks whose handler's Run is executing.
C18_SubmittedTaskRuns ==
    /\ [](\A n \in Nodes :
            /\ RunningSet(n) = Executing(n)
            /\ TasksOf(n) = SortedSeq(Executing(n)))
    /\ \A t \in Tasks :
          (runPc["n1"] # "idle" /\ t \in props /\ owner[t] = None)
             ~> (t \in Executing("n1") /\ owner[t] = "n1")

\* t1 was submitted after Run started; its handler's Run is executing and
\* Tasks() is <<t1>>
C18_Witness ==
    /\ TasksOf("n1") = <<"t1">>
    /\ Executing("n1") = {"t1"}
    /\ owner["t1"] = "n1"
    /\ props = {"t1"}
    /\ budget.submit = MaxSubmit - 1

\* ---------------------------------------------- hand-over at shutdown

\* Two consumers on one broker, n1 may be shut down and n2 keeps running;
\* under Go's scheduling on both: every goroutine that can take a step
\* takes it, and a handler returns from Run once Stop was called on it.
InitHandover ==
    InitWith([submit |-> MaxClusterSubmit, cmd |-> 0, expire |-> 0,
              refuse |-> 0, tick |-> 0, werr |-> 0, yield |-> 0])

LeavingStep(n) ==
    \/ RunCall(n) \/ RunBegin(n)
    \/ LoopStop(n) \/ LoopTaskWatch(n) \/ LoopClaim(n) \/ claimed(n)
    \/ shutdownClose(n) \/ shutdownStopAll(n) \/ shutdownWait(n)
    \/ \E i \in DOMAIN hs[n] : runTask(n, i) \/ HandlerFinalize(n, i) \/ HandlerExit(n, i)
    \/ \E i \in stopQ[n] : StopRun(n, i)
    \/ WatchStart(n) \/ WatchParse(n) \/ WatchClosed(n) \/ PollClosed(n)
    \/ Shutdown(n) \/ ShutdownHwgWait(n) \/ ShutdownRunWait(n)

NextHandover ==
    \/ LeavingStep("n1")
    \/ SubmitStep("n2")
    \/ \E t \in Tasks : SubmitTask(t)

SpecHandover ==
    InitHandover /\ [][NextHandover]_vars /\ Fairness("n1") /\ FairnessSubmit("n2")

ReleasingAtShutdown(n, t) ==
    /\ stop[n]
    /\ \E i \in DOMAIN hs[n] :
          hs[n][i].task = t /\ hs[n][i].pc = "fin" /\ hs[n][i].out = "false"

ShutdownAgain(n) ==
    /\ againPc[n] = "idle"
    /\ close(n)
    /\ againPc' = [againPc EXCEPT ![n] = "hwg"]
    /\ UNCHANGED <<brokerVars, coordVars, auxVars, histVars>>
    /\ UNCHANGED <<runPc, cur, running, hwg, runwg, freeze, hs, stopQ, shutPc>>

\* Consumer.Shutdown of the other caller: c.hwg.Wait() returns
ShutdownAgainHwgWait(n) ==
    /\ againPc[n] = "hwg"
    /\ hwg[n] = 0
    /\ againPc' = [againPc EXCEPT ![n] = "runwg"]
    /\ UNCHANGED <<brokerVars, coordVars, auxVars, histVars>>
    /\ UNCHANGED <<runPc, cur, stop, closes, running, hwg, runwg, freeze, hs, stopQ, shutPc>>

\* Consumer.Shutdown of the other caller: runwgL.Lock(); runwg.Wait();
\* runwgL.Unlock(); return
ShutdownAgainRunWait(n) ==
    /\ againPc[n] = "runwg"
    /\ runwg[n] = 0
    /\ againPc' = [againPc EXCEPT ![n] = "returned"]
    /\ UNCHANGED <<brokerVars, coordVars, auxVars, histVars>>
    /\ UNCHANGED <<runPc, cur, stop, closes, running, hwg, runwg, freeze, hs, stopQ, shutPc>>

\* One consumer whose Shutdown is called by two goroutines, each at any
\* time: one after the other has returned, or both at once; Watch may fail,
\* which is a third caller of close().
InitAgain ==
    InitWith([submit |-> MaxLiveSubmit, cmd |-> MaxCmd, expire |-> 0,
              refuse |-> 0, tick |-> MaxTick, werr |-> MaxWatchErr, yield |-> 0])

NextAgain ==
    \/ NextWatchLive
    \/ ShutdownAgain("n1") \/ ShutdownAgainHwgWait("n1") \/ ShutdownAgainRunWait("n1")

SpecAgain == InitAgain /\ [][NextAgain]_vars

\* a step of a call of Shutdown on n
ShutdownStep(n) ==
    \/ Shutdown(n) \/ ShutdownHwgWait(n) \/ ShutdownRunWait(n)
    \/ ShutdownAgain(n) \/ ShutdownAgainHwgWait(n) \/ ShutdownAgainRunWait(n)

\* C20: however often and in whatever interleaving Shutdown is called,
\* close(c.stop) is executed at most once (a second execution would panic)
\* and c.stop is closed exactly when it was executed once; and a step of a
\* call of Shutdown that finds c.stop closed changes nothing of the
\* consumer, its coordinator, its goroutines or the broker.
C20_ShutdownIdempotent ==
    /\ [](\A n \in Nodes : closes[n] <= 1 /\ (stop[n] <=> closes[n] = 1))
    /\ [][\A n \in Nodes :
            (stop[n] /\ ShutdownStep(n))
               => /\ UNCHANGED <<runPc, cur, stop, closes, running, hwg, runwg, freeze, hs, stopQ>>
                  /\ UNCHANGED <<brokerVars, coordVars, auxVars>>]_vars

\* two calls of Shutdown are in progress at once, one of them having closed
\* c.stop, while a handler goroutine is still live
C20_Witness ==
    /\ shutPc["n1"] = "hwg"
    /\ againPc["n1"] = "hwg"
    /\ closes["n1"] = 1
    /\ hwg["n1"] > 0


\* ------------------------------------------------- closing a coordinator

\* EtcdCoordinator.Close called by the application: it returns at once if
\* ec.stop is closed, else closes it (the node entry it then deletes is not
\* part of this model)
CoordClose(n) ==
    /\ IF ecStop[n]
       THEN UNCHANGED ecStop
       ELSE ecStop' = [ecStop EXCEPT ![n] = TRUE]
    /\ UNCHANGED <<brokerVars, refresh, evq, auxVars, consVars, histVars>>

\* EmbeddedCoordinator.Close: close(e.stopchan), whatever its state; closing
\* a closed channel panics
EmClose ==
    /\ ~emPanic
    /\ IF emStop
       THEN emPanic' = TRUE /\ UNCHANGED emStop
       ELSE emStop' = TRUE /\ UNCHANGED emPanic
    /\ UNCHANGED <<besideEm, emWatchPc, emCmdPc>>

\* EmbeddedCoordinator.Watch is called with nothing on inchan: it blocks in
\* its select, or returns nil at once if stopchan is closed
EmWatch ==
    /\ ~emPanic
    /\ emWatchPc \in {"idle", "nil"}
    /\ emWatchPc' = IF emStop THEN "nil" ELSE "blocked"
    /\ UNCHANGED <<besideEm, emStop, emPanic, emCmdPc>>

\* a blocked Watch takes `case <-e.stopchan: return nil`
EmWatchStop ==
    /\ ~emPanic
    /\ emWatchPc = "blocked"
    /\ emStop
    /\ emWatchPc' = "nil"
    /\ UNCHANGED <<besideEm, emStop, emPanic, emCmdPc>>

\* EmbeddedCoordinator.Command is called with nothing on cmdchan
EmCommand ==
    /\ ~emPanic
    /\ emCmdPc \in {"idle", "nil"}
    /\ emCmdPc' = IF emStop THEN "nil" ELSE "blocked"
    /\ UNCHANGED <<besideEm, emStop, emPanic, emWatchPc>>

\* a blocked Command takes `case <-e.stopchan: return nil, nil`
EmCommandStop ==
    /\ ~emPanic
    /\ emCmdPc = "blocked"
    /\ emStop
    /\ emCmdPc' = "nil"
    /\ UNCHANGED <<besideEm, emStop, emPanic, emWatchPc>>

\* A consumer on an EtcdCoordinator that the application may also close
\* itself, at any time and any number of times, and beside it an
\* EmbeddedCoordinator whose Watch, Command and Close are called at any time.
InitClose ==
    InitWith([submit |-> MaxLiveSubmit, cmd |-> 0, expire |-> 0,
              refuse |-> 0, tick |-> 0, werr |-> 0, yield |-> 0])

NextClose ==
    \/ LeavingStep("n1") \/ LoopCommandClosed("n1")
    \/ CoordClose("n1")
    \/ \E t \in Tasks : SubmitTask(t)
    \/ EmClose \/ EmWatch \/ EmWatchStop \/ EmCommand \/ EmCommandStop

SpecClose == InitClose /\ [][NextClose]_vars

\* C21: a Close on a closed coordinator does not panic and changes nothing,
\* for the EmbeddedCoordinator and for the EtcdCoordinator (whether the
\* application or the consumer's shutdown() makes the call); and on a closed
\* coordinator Watch returns nil and Command returns (nil, nil).
C21_SecondCloseNoOp ==
    /\ [](~emPanic)
    /\ [][(emStop /\ EmClose) => UNCHANGED emVars]_vars
    /\ [][(emStop /\ EmWatch) => emWatchPc' = "nil"]_vars
    /\ [][(emStop /\ EmCommand) => emCmdPc' = "nil"]_vars
    /\ [][\A n \in Nodes :
            (ecStop[n] /\ (CoordClose(n) \/ shutdownClose(n)))
               => UNCHANGED <<brokerVars, coordVars, auxVars>>]_vars
    /\ [][\A n \in Nodes :
            (ecStop[n] /\ WatchStart(n)) => watchPc'[n] = "exit"]_vars
    /\ [](\A n \in Nodes : (ecStop[n] /\ pollPc[n] = "poll") => ENABLED PollClosed(n))


\* ------------------------------------------------------ runningtask.stop

\* a stop() that records the time of every call
stopRecordAlways(now) == now

\* runningtask.stop: `if t.stopped.IsZero() { t.stopped = time.Now() }`
stopRecord(now) == IF rtStopped = 0 THEN now ELSE rtStopped

\* a goroutine calls stop() and waits for stopL
RtCall(c) ==
    /\ rtPc[c] = "idle"
    /\ rtPc' = [rtPc EXCEPT ![c] = "waiting"]
    /\ UNCHANGED <<besideRt, rtNow, rtStopped, rtFirst>>

\* the caller gets stopL, records the time and calls h.Stop()
RtEnter(c) ==
    /\ rtPc[c] = "waiting"
    /\ \A d \in Stoppers : rtPc[d] # "held"
    /\ rtStopped' = stopRecord(rtNow)
    /\ rtFirst' = IF rtFirst = 0 THEN rtNow ELSE rtFirst
    /\ rtPc' = [rtPc EXCEPT ![c] = "held"]
    /\ UNCHANGED <<besideRt, rtNow>>

\* h.Stop() returns and the deferred Unlock runs
RtLeave(c) ==
    /\ rtPc[c] = "held"
    /\ rtPc' = [rtPc EXCEPT ![c] = "idle"]
    /\ UNCHANGED <<besideRt, rtNow, rtStopped, rtFirst>>

\* time passes
RtTick ==
    /\ rtNow < MaxClock
    /\ rtNow' = rtNow + 1
    /\ UNCHANGED <<besideRt, rtStopped, rtFirst, rtPc>>

\* One runningtask on which several goroutines call stop(), again and again
\* and at once, while time passes.
InitStopped == InitWith([submit |-> 0, cmd |-> 0, expire |-> 0, refuse |-> 0,
                         tick |-> 0, werr |-> 0, yield |-> 0])

NextStopped ==
    \/ \E c \in Stoppers : RtCall(c) \/ RtEnter(c) \/ RtLeave(c)
    \/ RtTick

SpecStopped == InitStopped /\ [][NextStopped]_vars

\* C22: Stopped is zero until a stop() runs, from then on it is the time read
\* by the first stop() that ran, and no later stop() changes it.
C22_StoppedSetOnce ==
    /\ [](rtStopped = rtFirst)
    /\ [][rtStopped # 0 => rtStopped' = rtStopped]_vars

\* a second stop() is executing, later than the first, and Stopped is still
\* the time of the first
C22_Witness ==
    /\ rtStopped # 0
    /\ rtStopped < rtNow
    /\ \E c \in Stoppers : rtPc[c] = "held"
    /\ \E c \in Stoppers : rtPc[c] = "waiting"


\* ------------------------------------------- stop_task that stops nothing

\* One consumer whose operator sends stop_task commands (naming a task, an
\* unknown ID, no task, or a task that is not a string) and freeze.
InitStopCmd ==
    InitWith([submit |-> MaxSubmit, cmd |-> MaxOpCmd, expire |-> 0,
              refuse |-> 0, tick |-> 0, werr |-> 0, yield |-> 0])

StopCmdStep(n) ==
    \/ RunCall(n) \/ RunBegin(n)
    \/ LoopTaskWatch(n) \/ LoopClaim(n) \/ claimed(n)
    \/ LoopCommand(n)
    \/ \E i \in DOMAIN hs[n] : runTask(n, i) \/ HandlerFinalize(n, i) \/ HandlerExit(n, i)
    \/ \E i \in stopQ[n] : StopRun(n, i)
    \/ WatchStart(n) \/ WatchParse(n)
    \/ PollCommand(n)

NextStopCmd ==
    \/ StopCmdStep("n1")
    \/ \E t \in Tasks : SubmitTask(t)
    \/ \E c \in StopCommands \cup {[name |-> cmdFreeze, task |-> None]} :
          SubmitCommand("n1", c)

SpecStopCmd == InitStopCmd /\ [][NextStopCmd]_vars

\* the command c is a stop_task that names no task running on n
StopsNothing(n, c) ==
    /\ c.name = cmdStopTask
    /\ ~hasTask(c) \/ c.task \notin RunningSet(n)

\* C23: handling a stop_task command that has no string "task" parameter, or
\* names an ID that is not in running, starts no stop goroutine, stops no
\* handler and leaves running, frozen and the ignore set as they were.
C23_StopUnknownNoOp ==
    [][\A n \in Nodes :
         (LoopCommand(n) /\ StopsNothing(n, pcmd[n]))
            => UNCHANGED <<stopQ, hs, running, freeze, ign>>]_vars

\* such a command has been handled while frozen, and the only handler ever
\* started is still running, never stopped
C23_Witness ==
    /\ budget.cmd = 0
    /\ cmds["n1"] = <<>>
    /\ pollPc["n1"] = "poll"
    /\ freeze["n1"]
    /\ Len(hs["n1"]) = 1
    /\ hs["n1"][1].pc = "run"
    /\ ~hs["n1"][1].stopped
    /\ stopQ["n1"] = {}


\* ----------------------------------------------------------- FairBalancer

\* the sum of the values of the map f
RECURSIVE MapSum(_)
MapSum(f) ==
    IF DOMAIN f = {} THEN 0
    ELSE LET k == CHOOSE x \in DOMAIN f : TRUE
         IN f[k] + MapSum([x \in DOMAIN f \ {k} |-> f[x]])

\* math.Ceil(float64(a) * releaseThreshold) for an integer a >= 0
CeilThreshold(a) == (a * ThresholdNum + ThresholdDen - 1) \div ThresholdDen

\* a desiredCount that is the average, without the release threshold
desiredCountAverage(current) ==
    IF Cardinality(DOMAIN current) > 0
    THEN MapSum(current) \div Cardinality(DOMAIN current)
    ELSE 0

\* FairBalancer.desiredCount: avg := total / len(current) in integers, then
\* int(math.Ceil(float64(avg) * e.releaseThreshold))
desiredCount(current) ==
    LET total == MapSum(current)
        avg   == IF Cardinality(DOMAIN current) > 0
                 THEN total \div Cardinality(DOMAIN current)
                 ELSE 0
    IN CeilThreshold(avg)

\* every map of task counts that NodeTaskCount may return
CountMaps == UNION {[D -> 0..MaxCount] : D \in SUBSET Nodes}

\* the balancer computes the desired count of its cluster state
FbDesired ==
    /\ fbOut.op # "desired"
    /\ fbOut' = [op |-> "desired", val |-> desiredCount(fbCounts)]
    /\ UNCHANGED <<besideFb, fbCool, fbTasks, fbCounts, fbErr, fbNow, fbDelay, fbPc, fbShould, fbRel>>

\* desiredCount applied to every map of per-node task counts
InitDesired ==
    /\ InitSys([submit |-> 0, cmd |-> 0, expire |-> 0, refuse |-> 0,
                tick |-> 0, werr |-> 0, yield |-> 0])
    /\ EmIdle /\ RtIdle /\ ClIdle /\ RbIdle /\ MxIdle /\ BmIdle /\ TkIdle /\ PtIdle /\ LkIdle /\ MlIdle /\ EsIdle /\ NrIdle
    /\ fbTasks = {} /\ fbErr = FALSE /\ fbNow = 1 /\ fbDelay = 0
    /\ fbPc = "idle" /\ fbShould = 0 /\ fbRel = <<>> /\ fbOut = NoCall /\ fbCool = 0
    /\ fbCounts \in CountMaps

NextDesired == FbDesired

SpecDesired == InitDesired /\ [][NextDesired]_vars

\* C25: the desired count is the ceiling of the cluster's average number of
\* tasks per node times the release threshold, for every map of task counts:
\* with total tasks on k nodes, the least integer d with
\* d * k * ThresholdDen >= total * ThresholdNum.
C25_DesiredIsCeilOfAverage ==
    (fbOut.op = "desired" /\ DOMAIN fbCounts # {})
       => LET total == MapSum(fbCounts)
              k     == Cardinality(DOMAIN fbCounts)
          IN fbOut.val = (total * ThresholdNum + k * ThresholdDen - 1) \div (k * ThresholdDen)


\* Balance's loop body: tid is appended unless it is in releaseset
picked(rel, t) ==
    IF \E i \in DOMAIN rel : rel[i] = t THEN rel ELSE Append(rel, t)

\* FairBalancer.Balance up to its loop: reset the delay, return nil if the
\* node runs fewer than 2 tasks, if the cluster state cannot be read or if
\* shouldrelease < 1; else start picking
FbBalance ==
    /\ fbPc = "idle"
    /\ IF Cardinality(fbTasks) < 2 \/ fbErr
          \/ (IF Self \in DOMAIN fbCounts THEN fbCounts[Self] ELSE 0) - desiredCount(fbCounts) < 1
       THEN /\ fbOut' = [op |-> "balance", ids |-> <<>>]
            /\ UNCHANGED <<fbPc, fbShould, fbRel>>
       ELSE /\ fbPc' = "loop"
            /\ fbShould' = fbCounts[Self] - desiredCount(fbCounts)
            /\ fbRel' = <<>>
            /\ UNCHANGED fbOut
    /\ fbDelay' = 0
    /\ UNCHANGED <<besideFb, fbCool, fbTasks, fbCounts, fbErr, fbNow>>

\* one turn of `for len(releasetasks) < shouldrelease`: the random source
\* gives the task t
FbPick(t) ==
    /\ fbPc = "loop"
    /\ Len(fbRel) < fbShould
    /\ t \in fbTasks
    /\ fbRel' = picked(fbRel, t)
    /\ UNCHANGED <<besideFb, fbCool, fbTasks, fbCounts, fbErr, fbNow, fbDelay, fbPc, fbShould, fbOut>>

\* the turn gives a task that is not yet in releaseset
FbPickNew ==
    \E t \in fbTasks : FbPick(t) /\ fbRel' # fbRel

\* the loop ends: e.delay = now + len(releasetasks) seconds; return
FbReturn ==
    /\ fbPc = "loop"
    /\ Len(fbRel) >= fbShould
    /\ fbDelay' = fbNow + Len(fbRel)
    /\ fbOut' = [op |-> "balance", ids |-> fbRel]
    /\ fbPc' = "idle"
    /\ fbCool' = fbNow + Len(fbRel)
    /\ UNCHANGED <<besideFb, fbTasks, fbCounts, fbErr, fbNow, fbShould, fbRel>>

\* Balance called once on every local task set and every cluster state; the
\* cluster state is read from the broker and need not agree with what
\* ctx.Tasks() lists.  A random source gives every value again and again.
InitFair ==
    /\ InitSys([submit |-> 0, cmd |-> 0, expire |-> 0, refuse |-> 0,
                tick |-> 0, werr |-> 0, yield |-> 0])
    /\ EmIdle /\ RtIdle /\ ClIdle /\ RbIdle /\ MxIdle /\ BmIdle /\ TkIdle /\ PtIdle /\ LkIdle /\ MlIdle /\ EsIdle /\ NrIdle
    /\ fbNow = 1 /\ fbDelay = 0
    /\ fbPc = "idle" /\ fbShould = 0 /\ fbRel = <<>> /\ fbOut = NoCall /\ fbCool = 0
    /\ fbErr \in BOOLEAN
    /\ fbTasks \in SUBSET BalTasks
    /\ fbCounts \in CountMaps

NextFair ==
    \/ fbOut = NoCall /\ FbBalance
    \/ \E t \in BalTasks : FbPick(t)
    \/ FbReturn

SpecFair == InitFair /\ [][NextFair]_vars /\ WF_vars(FbPickNew) /\ WF_vars(FbReturn)

\* the number of tasks the cluster state says this node holds
Held == IF Self \in DOMAIN fbCounts THEN fbCounts[Self] ELSE 0

\* C24: a call of Balance returns; it returns no ID if the node runs fewer
\* than 2 tasks or holds no more than the desired count, and otherwise (the
\* cluster state being readable) exactly held - desired distinct IDs of tasks
\* running on this node.
C24_BalanceReleasesExcess ==
    /\ [](fbOut.op = "balance" =>
            /\ (Cardinality(fbTasks) < 2 \/ Held <= desiredCount(fbCounts))
                  => fbOut.ids = <<>>
            /\ (Cardinality(fbTasks) >= 2 /\ Held > desiredCount(fbCounts) /\ ~fbErr)
                  => /\ Len(fbOut.ids) = Held - desiredCount(fbCounts)
                     /\ \A i, j \in DOMAIN fbOut.ids : i # j => fbOut.ids[i] # fbOut.ids[j]
                     /\ \A i \in DOMAIN fbOut.ids : fbOut.ids[i] \in fbTasks)
    /\ (fbPc = "loop") ~> (fbOut.op = "balance")


\* a CanClaim that accepts every task, cooldown or not
canClaimAlways(delay, now) == [until |-> 0, ok |-> TRUE]

\* FairBalancer.CanClaim: `if e.delay.After(time.Now())` return the delay
\* and false, else NoDelay and true
canClaim(delay, now) ==
    IF delay > now
    THEN [until |-> delay, ok |-> FALSE]
    ELSE [until |-> 0, ok |-> TRUE]

\* the main loop asks CanClaim about a task (any task: the answer does not
\* depend on it); it calls Balance and CanClaim one at a time
FbCanClaim ==
    /\ fbPc = "idle"
    /\ fbOut' = [op |-> "canclaim", res |-> canClaim(fbDelay, fbNow)]
    /\ UNCHANGED <<besideFb, fbCool, fbTasks, fbCounts, fbErr, fbNow, fbDelay, fbPc, fbShould, fbRel>>

\* a second passes
FbTick ==
    /\ fbNow < MaxClock
    /\ fbNow' = fbNow + 1
    /\ UNCHANGED <<besideFb, fbCool, fbTasks, fbCounts, fbErr, fbDelay, fbPc, fbShould, fbRel, fbOut>>

\* the tasks Balance returned have been stopped and released: they are gone
\* from ctx.Tasks() and from this node's count in the cluster state
FbReleased ==
    /\ fbPc = "idle"
    /\ fbOut.op = "balance"
    /\ fbOut.ids # <<>>
    /\ \A i \in DOMAIN fbOut.ids : fbOut.ids[i] \in fbTasks
    /\ fbTasks' = fbTasks \ {fbOut.ids[i] : i \in DOMAIN fbOut.ids}
    /\ fbCounts' = [fbCounts EXCEPT ![Self] = @ - Len(fbOut.ids)]
    /\ UNCHANGED <<besideFb, fbCool, fbErr, fbNow, fbDelay, fbPc, fbShould, fbRel, fbOut>>

\* A FairBalancer whose consumer calls Balance (on a tick or a run_balance
\* command) and CanClaim at any time while time passes; the cluster state
\* agrees with the local task list, and released tasks leave the node.
InitCooldown ==
    /\ InitSys([submit |-> 0, cmd |-> 0, expire |-> 0, refuse |-> 0,
                tick |-> 0, werr |-> 0, yield |-> 0])
    /\ EmIdle /\ RtIdle /\ ClIdle /\ RbIdle /\ MxIdle /\ BmIdle /\ TkIdle /\ PtIdle /\ LkIdle /\ MlIdle /\ EsIdle /\ NrIdle
    /\ fbNow = 1 /\ fbDelay = 0 /\ fbErr = FALSE
    /\ fbPc = "idle" /\ fbShould = 0 /\ fbRel = <<>> /\ fbOut = NoCall /\ fbCool = 0
    /\ fbTasks \in SUBSET BalTasks
    /\ fbCounts \in {f \in [Nodes -> 0..Cardinality(BalTasks)] : f[Self] = Cardinality(fbTasks)}

NextCooldown ==
    \/ FbBalance
    \/ \E t \in BalTasks : FbPick(t)
    \/ FbReturn
    \/ FbCanClaim
    \/ FbTick
    \/ FbReleased

SpecCooldown == InitCooldown /\ [][NextCooldown]_vars

\* C26 as stated: from the return of a Balance that released N >= 1 tasks at
\* time T until T + N has passed, CanClaim rejects with ignoreUntil = T + N;
\* otherwise it accepts.
C26_CooldownUntilDelay ==
    [][FbCanClaim =>
         fbOut'.res = IF fbCool > fbNow
                      THEN [until |-> fbCool, ok |-> FALSE]
                      ELSE [until |-> 0, ok |-> TRUE]]_vars

\* C26, amended: a Balance that returns N >= 1 IDs at time T sets the delay
\* to T + N, and every call of Balance first clears the delay; CanClaim
\* rejects with ignoreUntil = delay while the delay is later than now, and
\* accepts every task otherwise.  So the cooldown lasts until T + N has
\* passed or until Balance is called again, whichever comes first.
C26_CooldownUntilDelayOrBalance ==
    /\ [][FbCanClaim =>
            fbOut'.res = IF fbDelay > fbNow
                         THEN [until |-> fbDelay, ok |-> FALSE]
                         ELSE [until |-> 0, ok |-> TRUE]]_vars
    /\ [][FbReturn => (Len(fbOut'.ids) >= 1 /\ fbDelay' = fbNow + Len(fbOut'.ids))]_vars
    /\ [][FbBalance => fbDelay' = 0]_vars
    /\ [][fbDelay' # fbDelay => (FbBalance \/ FbReturn)]_vars

\* CanClaim has rejected a task during the cooldown of a Balance that
\* released tasks
C26_Witness ==
    /\ fbOut.op = "canclaim"
    /\ ~fbOut.res.ok
    /\ fbOut.res.until = fbCool
    /\ fbCool > fbNow


\* ------------------------------------- two consumers with FairBalancers

\* the tasks the consumer n runs
ClHeld(n) == {t \in SixTasks : clOwner[t] = n}

\* the cluster state: the number of tasks each registered node owns
ClCounts == [n \in Nodes |-> Cardinality(ClHeld(n))]

\* what Balance on n may return: nothing if n runs fewer than 2 tasks or
\* shouldrelease < 1, else any shouldrelease distinct tasks of n
ClRelease(n) ==
    LET should == ClCounts[n] - desiredCount(ClCounts)
    IN IF Cardinality(ClHeld(n)) < 2 \/ should < 1
       THEN {{}}
       ELSE {R \in SUBSET ClHeld(n) : Cardinality(R) = should}

\* n handles a run_balance command: Balance picks the tasks and sets the
\* delay, the consumer stops them, their handlers return false and Release
\* removes their markers
ClBalance(n) ==
    /\ clCmd[n] > 0
    /\ clCmd' = [clCmd EXCEPT ![n] = @ - 1]
    /\ \E R \in ClRelease(n) :
          /\ clOwner' = [t \in SixTasks |-> IF t \in R THEN None ELSE clOwner[t]]
          /\ clDelay' = [clDelay EXCEPT ![n] = IF R = {} THEN 0 ELSE clNow + Cardinality(R)]
    /\ UNCHANGED <<besideCl, clNow>>

\* n is offered the unowned task t, its balancer accepts and its Claim wins
ClClaim(n, t) ==
    /\ clOwner[t] = None
    /\ canClaim(clDelay[n], clNow).ok
    /\ clOwner' = [clOwner EXCEPT ![t] = n]
    /\ UNCHANGED <<besideCl, clDelay, clNow, clCmd>>

\* a second passes; a consumer that may claim an unowned task does so within
\* the second
ClTick ==
    /\ clNow < MaxClock
    /\ \A n \in Nodes : \A t \in SixTasks : ~ENABLED ClClaim(n, t)
    /\ clNow' = clNow + 1
    /\ UNCHANGED <<besideCl, clOwner, clDelay, clCmd>>

\* The first consumer runs six tasks, the second has joined and runs none;
\* each will receive one run_balance command.
InitSplit ==
    /\ InitSys([submit |-> 0, cmd |-> 0, expire |-> 0, refuse |-> 0,
                tick |-> 0, werr |-> 0, yield |-> 0])
    /\ EmIdle /\ RtIdle /\ FbIdle /\ RbIdle /\ MxIdle /\ BmIdle /\ TkIdle /\ PtIdle /\ LkIdle /\ MlIdle /\ EsIdle /\ NrIdle
    /\ clOwner = [t \in SixTasks |-> Self]
    /\ clDelay = [n \in Nodes |-> 0]
    /\ clNow = 1
    /\ clCmd = [n \in Nodes |-> 1]

NextSplit ==
    \/ \E n \in Nodes : ClBalance(n)
    \/ \E n \in Nodes : \E t \in SixTasks : ClClaim(n, t)
    \/ ClTick

SpecSplit ==
    InitSplit /\ [][NextSplit]_vars
       /\ \A t \in SixTasks : WF_vars(ClClaim("n2", t))

RECURSIVE Pow2(_)
\* 2^n
Pow2(n) == IF n = 0 THEN 1 ELSE 2 * Pow2(n - 1)

RECURSIVE Scale(_, _)
\* the number of doublings that bring x up to total: the binary exponent of
\* the quotient x / total, negated
Scale(x, total) == IF x >= total THEN 0 ELSE 1 + Scale(2 * x, total)

RECURSIVE Quot(_, _, _, _)
\* long division: k more bits of the quotient m, r the remainder so far
Quot(m, r, total, k) ==
    IF k = 0 THEN [m |-> m, r |-> r]
    ELSE IF 2 * r >= total THEN Quot(2 * m + 1, 2 * r - total, total, k - 1)
    ELSE Quot(2 * m, 2 * r, total, k - 1)

\* IEEE 754 round to nearest, ties to even: m with the fraction rem / unit
\* dropped
RoundEven(m, rem, unit) ==
    IF 2 * rem > unit \/ (2 * rem = unit /\ m % 2 = 1) THEN m + 1 ELSE m

\* a float32 is m * 2^e with a significand m of 24 bits; a significand that
\* rounding carried to 2^24 is renormalised
Normal(m, e) ==
    IF m = Pow2(24) THEN [m |-> Pow2(23), e |-> e + 1] ELSE [m |-> m, e |-> e]

\* float32(used) / float32(total) for 0 < used <= total: both operands are
\* exact in float32, the quotient is rounded to 24 bits
F32Div(used, total) ==
    LET s == Scale(used, total)
        q == Quot(1, used * Pow2(s) - total, total, 23)
    IN  Normal(RoundEven(q.m, q.r, total), 0 - 23 - s)

\* f * 100 in float32: the exact product has 30 or 31 bits and is rounded
\* to 24
F32Mul100(f) ==
    LET P == f.m * 100
        d == IF P >= Pow2(30) THEN 7 ELSE 6
    IN  Normal(RoundEven(P \div Pow2(d), P % Pow2(d), Pow2(d)), f.e + d)

\* int(f) for a float32 f below 2^24: the fraction is cut off
F32ToInt(f) == f.m \div Pow2(0 - f.e)

\* `threshold := int(float32(used) / float32(total) * 100)`
threshold(used, total) ==
    IF used = 0 THEN 0 ELSE F32ToInt(F32Mul100(F32Div(used, total)))

RECURSIVE oldestFrom(_, _, _)
\* Balance's loop over ctx.Tasks() from index i on: task is replaced by
\* each task that is not stopping and started strictly before it
oldestFrom(tasks, i, task) ==
    IF i > Len(RbOrder) THEN task
    ELSE LET id == RbOrder[i]
             t == tasks[id]
         IN  oldestFrom(tasks, i + 1,
                 IF /\ t.run
                    /\ t.stopped = 0
                    /\ (task = None \/ tasks[task].started > t.started)
                 THEN id ELSE task)

\* ResourceBalancer.Balance: nothing below the release limit, else the
\* oldest task that is not stopping, if there is one
rbBalance(used, total, limit, tasks) ==
    IF threshold(used, total) < limit THEN <<>>
    ELSE LET task == oldestFrom(tasks, 1, None)
         IN  IF task = None THEN <<>> ELSE <<task>>

\* the consumer calls Balance
RbBalance ==
    /\ rbOut = NoCall
    /\ rbOut' = [op |-> "balance", ids |-> rbBalance(rbUsed, rbTotal, rbLimit, rbTasks)]
    /\ UNCHANGED <<besideRb, rbUsed, rbTotal, rbLimit, rbTasks>>

\* the consumer has taken Balance's result: it called stop on the task
\* returned, if any, which records the task's Stopped time
RbTaken ==
    /\ rbOut.op = "balance"
    /\ rbTasks' = [t \in RbIds |->
                     IF \E i \in DOMAIN rbOut.ids : rbOut.ids[i] = t
                     THEN [rbTasks[t] EXCEPT !.stopped = StoppedAt]
                     ELSE rbTasks[t]]
    /\ rbOut' = NoCall
    /\ UNCHANGED <<besideRb, rbUsed, rbTotal, rbLimit>>

\* the tasks a node may hold: absent, or running since some instant and
\* either not stopping or stopping
RbTaskStates ==
    {NoRbTask} \cup [run : {TRUE}, started : 1..MaxStarted, stopped : {0, StoppedAt}]

\* A ResourceBalancer with any release limit on a node with any usage and
\* any tasks; the consumer calls Balance and stops what it returns.
InitResource ==
    /\ InitSys([submit |-> 0, cmd |-> 0, expire |-> 0, refuse |-> 0,
                tick |-> 0, werr |-> 0, yield |-> 0])
    /\ EmIdle /\ RtIdle /\ FbIdle /\ ClIdle /\ MxIdle /\ BmIdle /\ TkIdle /\ PtIdle /\ LkIdle /\ MlIdle /\ EsIdle /\ NrIdle
    /\ rbTotal \in RbTotals
    /\ rbUsed \in 0..MaxPercent
    /\ rbUsed <= rbTotal
    /\ rbLimit \in ReleaseLimits
    /\ rbTasks \in [RbIds -> RbTaskStates]
    /\ rbOut = NoCall

NextResource ==
    \/ RbBalance
    \/ RbTaken

SpecResource == InitResource /\ [][NextResource]_vars

\* the tasks of the node that run and are not stopping
RbLive == {t \in RbIds : rbTasks[t].run /\ rbTasks[t].stopped = 0}

\* C28: Balance returns at most one ID.  When the percentage used is at
\* least the release limit it returns a running task whose Stopped is zero
\* and whose Started is the earliest among those (none when every task is
\* stopping); when the percentage used is below the release limit it
\* returns none.
C28_ReleasesOldestOverLimit ==
    rbOut.op = "balance" =>
        /\ Len(rbOut.ids) <= 1
        /\ IF rbUsed * 100 >= rbLimit * rbTotal /\ RbLive # {}
           THEN /\ Len(rbOut.ids) = 1
                /\ rbOut.ids[1] \in RbLive
                /\ \A u \in RbLive : rbTasks[rbOut.ids[1]].started <= rbTasks[u].started
           ELSE rbOut.ids = <<>>


\* ---------------------------------------------------------------------
\* The task type mux
\* ---------------------------------------------------------------------

\* task.Props()[TypeKey]: a map without the key yields the empty string
typeOf(p) == IF p.has THEN p.typ ELSE ""

\* mux.get: the route registered for typ, or rejectRoute
get(routes, typ) ==
    IF typ \in Types /\ routes[typ] # None THEN routes[typ] ELSE AlwaysReject

\* CanClaim of the balancer b: rejecter.CanClaim returns forever and false
innerCanClaim(b) ==
    IF b = AlwaysReject THEN [until |-> forever, ok |-> FALSE] ELSE mxAns[b]

\* mux.Add(typ, h, b): a nil balancer stands for the default one
MxAdd(typ, b) ==
    /\ mxRoutes' = [mxRoutes EXCEPT ![typ] = IF b = None THEN mxRoutes[defkey] ELSE b]
    /\ mxOut' = NoCall
    /\ UNCHANGED <<besideMx, mxAns, mxNow>>

\* mux.CanClaim(task) for a task with the properties p
MxCanClaim(p) ==
    /\ mxOut = NoCall
    /\ LET b == get(mxRoutes, typeOf(p))
       IN  mxOut' = [op |-> "canclaim", props |-> p, asked |-> b, res |-> innerCanClaim(b)]
    /\ UNCHANGED <<besideMx, mxRoutes, mxAns, mxNow>>

\* the consumer has taken CanClaim's answer
MxTaken ==
    /\ mxOut.op = "canclaim"
    /\ mxOut' = NoCall
    /\ UNCHANGED <<besideMx, mxRoutes, mxAns, mxNow>>

\* time passes
MxTick ==
    /\ mxNow < Len(Clock)
    /\ mxNow' = mxNow + 1
    /\ UNCHANGED <<besideMx, mxRoutes, mxAns, mxOut>>

\* the properties of a task: with or without a _type
TaskProps == [has : {TRUE}, typ : Types \cup {"z"}] \cup {[has |-> FALSE, typ |-> ""]}

\* A mux made by New(defh, defb) with defb a balancer of the user's or
\* AlwaysReject; types are added and tasks of any type are offered.
InitMux ==
    /\ InitSys([submit |-> 0, cmd |-> 0, expire |-> 0, refuse |-> 0,
                tick |-> 0, werr |-> 0, yield |-> 0])
    /\ EmIdle /\ RtIdle /\ FbIdle /\ ClIdle /\ RbIdle /\ BmIdle /\ TkIdle /\ PtIdle /\ LkIdle /\ MlIdle /\ EsIdle /\ NrIdle
    /\ \E defb \in {"defb", AlwaysReject} :
           mxRoutes = [typ \in Types |-> IF typ = defkey THEN defb ELSE None]
    /\ mxAns \in [UserBalancers -> {Accept, Delay}]
    /\ mxNow = 1
    /\ mxOut = NoCall

NextMux ==
    \/ \E typ \in Types, b \in UserBalancers \cup {AlwaysReject, None} : MxAdd(typ, b)
    \/ \E p \in TaskProps : MxCanClaim(p)
    \/ MxTaken
    \/ MxTick

SpecMux == InitMux /\ [][NextMux]_vars

\* C29: CanClaim on a task without _type is answered by the default
\* balancer, on a task with a registered _type by that type's balancer, and
\* on a task with an unregistered _type with claim = false and an
\* ignoreUntil later than every current time.
C29_MuxRoutesOnType ==
    mxOut.op = "canclaim" =>
        LET p == mxOut.props
        IN  IF ~p.has
            THEN /\ mxOut.asked = mxRoutes[defkey]
                 /\ mxOut.res = innerCanClaim(mxRoutes[defkey])
            ELSE IF p.typ \in Types /\ mxRoutes[p.typ] # None
            THEN /\ mxOut.asked = mxRoutes[p.typ]
                 /\ mxOut.res = innerCanClaim(mxRoutes[p.typ])
            ELSE /\ ~mxOut.res.ok
                 /\ After(mxOut.res.until, Clock[mxNow])


\* ---------------------------------------------------------------------
\* BalancerMux.Balance
\* ---------------------------------------------------------------------

\* the inner balancers of the BalancerMux, called in order, and the tasks
\* its consumer may run
MaxInner == 3
MuxTasks == {"a", "b", "c"}

\* the slices that hold each element of S once, in any order: the keys of a
\* Go map are ranged over in no fixed order
Orders(S) ==
    {s \in [1..Cardinality(S) -> S] : \A i, j \in 1..Cardinality(S) : s[i] = s[j] => i = j}

\* newMuxCtx
newMuxCtx(tasks) == [remaining |-> tasks, releasedset |-> {}, panic |-> FALSE]

\* muxctx.add: the ID joins releasedset; the slice r made for the other
\* tasks has len(remaining) - 1 places, which panics when remaining is
\* empty or does not hold the ID; r is never stored, remaining stays
add(m, taskid) ==
    [remaining |-> m.remaining,
     releasedset |-> m.releasedset \cup {taskid},
     panic |-> m.panic \/ m.remaining = {} \/ taskid \notin m.remaining]

RECURSIVE addAll(_, _)
\* `for _, taskid := range innerb.Balance(mux) { mux.add(taskid) }`
addAll(m, ids) ==
    IF ids = <<>> THEN m ELSE addAll(add(m, Head(ids)), Tail(ids))

\* the consumer calls BalancerMux.Balance
BmBalance ==
    /\ bmNext = 0
    /\ bmOut = NoCall
    /\ ~bmPanic
    /\ LET m == newMuxCtx(bmTasks)
       IN  /\ bmRemaining' = m.remaining
           /\ bmReleased' = m.releasedset
    /\ bmNext' = 1
    /\ bmGiven' = <<>>
    /\ bmGot' = <<>>
    /\ UNCHANGED <<besideBm, bmTasks, bmPanic, bmOut>>

\* the next inner balancer's Balance(mux) returns ids, some of the tasks
\* of mux.Tasks(), and each is added to the context
BmInner(ids) ==
    /\ bmNext \in 1..MaxInner
    /\ ~bmPanic
    /\ \A i \in DOMAIN ids : ids[i] \in bmRemaining
    /\ LET m == addAll([remaining |-> bmRemaining, releasedset |-> bmReleased,
                        panic |-> FALSE], ids)
       IN  /\ bmRemaining' = m.remaining
           /\ bmReleased' = m.releasedset
           /\ bmPanic' = m.panic
    /\ bmGiven' = Append(bmGiven, bmRemaining)
    /\ bmGot' = Append(bmGot, {ids[i] : i \in DOMAIN ids})
    /\ bmNext' = bmNext + 1
    /\ UNCHANGED <<besideBm, bmTasks, bmOut>>

\* muxctx.result after the last inner balancer: the keys of releasedset
BmReturn ==
    /\ bmNext = MaxInner + 1
    /\ ~bmPanic
    /\ \E r \in Orders(bmReleased) : bmOut' = [op |-> "balance", ids |-> r]
    /\ bmNext' = 0
    /\ UNCHANGED <<besideBm, bmTasks, bmRemaining, bmReleased, bmGiven, bmGot, bmPanic>>

\* the consumer has taken Balance's result: the tasks returned are stopped
\* and leave the node
BmTaken ==
    /\ bmOut.op = "balance"
    /\ bmTasks' = bmTasks \ {bmOut.ids[i] : i \in DOMAIN bmOut.ids}
    /\ bmOut' = NoCall
    /\ bmGiven' = <<>>
    /\ bmGot' = <<>>
    /\ UNCHANGED <<besideBm, bmRemaining, bmReleased, bmNext, bmPanic>>

\* A BalancerMux of MaxInner balancers on a consumer with any tasks; each
\* inner balancer releases any of the tasks it is shown.
InitBalMux ==
    /\ InitSys([submit |-> 0, cmd |-> 0, expire |-> 0, refuse |-> 0,
                tick |-> 0, werr |-> 0, yield |-> 0])
    /\ EmIdle /\ RtIdle /\ FbIdle /\ ClIdle /\ RbIdle /\ MxIdle /\ TkIdle /\ PtIdle /\ LkIdle /\ MlIdle /\ EsIdle /\ NrIdle
    /\ bmTasks \in SUBSET MuxTasks
    /\ bmRemaining = {}
    /\ bmReleased = {}
    /\ bmNext = 0
    /\ bmGiven = <<>>
    /\ bmGot = <<>>
    /\ bmPanic = FALSE
    /\ bmOut = NoCall

NextBalMux ==
    \/ BmBalance
    \/ \E S \in SUBSET MuxTasks : \E ids \in Orders(S) : BmInner(ids)
    \/ BmReturn
    \/ BmTaken

SpecBalMux == InitBalMux /\ [][NextBalMux]_vars

\* the IDs the inner balancers before the k-th returned in this call
ReturnedBefore(k) == UNION {bmGot[j] : j \in 1..(k - 1)}

\* C30: in one call of BalancerMux.Balance every inner balancer is given a
\* task list without the tasks that earlier inner balancers returned in the
\* same call, and the result is the union of what the inner balancers
\* returned, each ID once.
C30_MuxNarrowsTaskList ==
    /\ \A k \in DOMAIN bmGiven : bmGiven[k] \cap ReturnedBefore(k) = {}
    /\ bmOut.op = "balance" =>
           /\ {bmOut.ids[i] : i \in DOMAIN bmOut.ids} = UNION {bmGot[k] : k \in DOMAIN bmGot}
           /\ \A i, j \in DOMAIN bmOut.ids : bmOut.ids[i] = bmOut.ids[j] => i = j


\* ---------------------------------------------------------------------
\* Consumer.Tasks
\* ---------------------------------------------------------------------

\* task IDs as strings of character codes ('0' < '1' < '2' < 'a' < 't'):
\* "a", "t", "t1", "t10", "t2"
IdStrings == {<<3>>, <<4>>, <<4, 1>>, <<4, 1, 0>>, <<4, 2>>}

RECURSIVE LexLess(_, _)
\* a < b for Go strings: byte by byte, a proper prefix comes first
LexLess(a, b) ==
    IF b = <<>> THEN FALSE
    ELSE IF a = <<>> THEN TRUE
    ELSE IF Head(a) # Head(b) THEN Head(a) < Head(b)
    ELSE LexLess(Tail(a), Tail(b))

RECURSIVE Insert(_, _)
\* x put into the sorted slice s before the first element above it
Insert(x, s) ==
    IF s = <<>> THEN <<x>>
    ELSE IF LexLess(x, Head(s)) THEN <<x>> \o s
    ELSE <<Head(s)>> \o Insert(x, Tail(s))

\* a slice left in the order the map gave
sortNone(ids) == ids

RECURSIVE sortStrings(_)
\* sort.Strings(ids)
sortStrings(ids) ==
    IF ids = <<>> THEN <<>> ELSE Insert(Head(ids), sortStrings(Tail(ids)))

\* claimed() puts a task into c.running, under runL
TkStart(id) ==
    /\ tkPc = "idle"
    /\ id \notin tkRunning
    /\ tkRunning' = tkRunning \cup {id}
    /\ tkOut' = NoCall
    /\ UNCHANGED <<besideTk, tkPc, tkIds>>

\* the handler goroutine deletes its task from c.running, under runL
TkEnd(id) ==
    /\ tkPc = "idle"
    /\ id \in tkRunning
    /\ tkRunning' = tkRunning \ {id}
    /\ tkOut' = NoCall
    /\ UNCHANGED <<besideTk, tkPc, tkIds>>

\* Tasks() takes runL and ranges over c.running: the keys come in any order
TkCollect ==
    /\ tkPc = "idle"
    /\ \E ids \in Orders(tkRunning) : tkIds' = ids
    /\ tkPc' = "sort"
    /\ tkOut' = NoCall
    /\ UNCHANGED <<besideTk, tkRunning>>

\* Tasks() sorts the IDs, looks each one up in c.running and returns
TkReturn ==
    /\ tkPc = "sort"
    /\ tkOut' = [op |-> "tasks", ids |-> sortStrings(tkIds)]
    /\ tkPc' = "idle"
    /\ tkIds' = <<>>
    /\ UNCHANGED <<besideTk, tkRunning>>

\* A consumer whose tasks start and end while Tasks() is called.
InitTasks ==
    /\ InitSys([submit |-> 0, cmd |-> 0, expire |-> 0, refuse |-> 0,
                tick |-> 0, werr |-> 0, yield |-> 0])
    /\ EmIdle /\ RtIdle /\ FbIdle /\ ClIdle /\ RbIdle /\ MxIdle /\ BmIdle /\ PtIdle /\ LkIdle /\ MlIdle /\ EsIdle /\ NrIdle
    /\ TkIdle

NextTasks ==
    \/ \E id \in IdStrings : TkStart(id) \/ TkEnd(id)
    \/ TkCollect
    \/ TkReturn

SpecTasks == InitTasks /\ [][NextTasks]_vars

\* C31: Tasks() returns exactly the tasks that are in running at the moment
\* of the call, each once, in ascending lexicographic order of task ID.
C31_TasksSorted ==
    tkOut.op = "tasks" =>
        /\ {tkOut.ids[i] : i \in DOMAIN tkOut.ids} = tkRunning
        /\ Len(tkOut.ids) = Cardinality(tkRunning)
        /\ \A i, j \in DOMAIN tkOut.ids : i < j => LexLess(tkOut.ids[i], tkOut.ids[j])

\* Tasks() has returned "t1", "t10", "t2" for a map ranged over in another
\* order
C31_Witness ==
    /\ tkOut.op = "tasks"
    /\ tkOut.ids = <<<<4, 1>>, <<4, 1, 0>>, <<4, 2>>>>


\* ---------------------------------------------------------------------
\* parseTask
\* ---------------------------------------------------------------------

\* etcd actions signifying a claim key was released
releaseActions == {actionExpire, actionDelete, actionCAD}

\* etcd actions signifying a new key
newActions == {actionCreated, actionSet}

\* a findProps that does not look for the claim marker
findPropsAnyOwner(nodes) == \A i \in DOMAIN nodes : nodes[i] # "badprops"

RECURSIVE findProps(_)
\* findProps: the nodes in order; a claim marker or a props file that does
\* not unmarshal ends the loop with a failure
findProps(nodes) ==
    IF nodes = <<>> THEN TRUE
    ELSE IF Head(nodes) = claimMarker THEN FALSE
    ELSE IF Head(nodes) = "badprops" THEN FALSE
    ELSE findProps(Tail(nodes))

\* parseTask(c, resp, basePath): whether it returns a task
parseTaskResp(resp) ==
    IF ~resp.under THEN FALSE
    ELSE IF resp.action \in newActions /\ resp.parts = 3 /\ resp.dir
    THEN findProps(resp.nodes)
    ELSE IF /\ resp.action \in newActions
            /\ resp.parts = 4
            /\ ~resp.dir
            /\ resp.last = propsKey
    THEN resp.valid
    ELSE IF resp.action \in releaseActions /\ resp.parts = 4 /\ resp.last = claimMarker
    THEN IF resp.get.err THEN FALSE ELSE findProps(resp.get.nodes)
    ELSE FALSE

\* Watch hands a response to parseTask
PtParse ==
    /\ ptOut = NoCall
    /\ ptOut' = [op |-> "parse", ok |-> parseTaskResp(ptResp)]
    /\ UNCHANGED <<besidePt, ptResp>>

\* the responses a watch or a listing of the task path may deliver, and
\* what a GET of the task would answer
Responses ==
    {r \in [under : BOOLEAN, parts : MinParts..MaxParts, last : LastParts, action : Actions,
            dir : BOOLEAN, valid : BOOLEAN, nodes : NodeLists,
            get : [err : BOOLEAN, nodes : NodeLists]] :
        /\ r.get.err => r.get.nodes = <<>>
        /\ ~r.dir => r.nodes = <<>>
        /\ r.parts # 4 => r.last = "other"}

\* parseTask is called on any response.
InitParse ==
    /\ InitSys([submit |-> 0, cmd |-> 0, expire |-> 0, refuse |-> 0,
                tick |-> 0, werr |-> 0, yield |-> 0])
    /\ EmIdle /\ RtIdle /\ FbIdle /\ ClIdle /\ RbIdle /\ MxIdle /\ BmIdle /\ TkIdle /\ LkIdle /\ MlIdle /\ EsIdle /\ NrIdle
    /\ ptResp \in Responses
    /\ ptOut = NoCall

NextParse == PtParse

SpecParse == InitParse /\ [][NextParse]_vars

\* the listing holds no owner child and no props file with invalid JSON
Claimable(nodes) ==
    \A i \in DOMAIN nodes : nodes[i] \notin {claimMarker, "badprops"}

\* C32: parseTask yields a task exactly for these events under the task
\* path: a create/set on a task directory that has no owner child; a
\* create/set on a task's props file holding valid JSON; an
\* expire/delete/compareAndDelete of a task's owner key when the follow-up
\* GET of the task succeeds and shows no owner child; in the first and the
\* last case provided no props file listed holds invalid JSON.  Every
\* other event yields no task.
C32_ParseTaskCases ==
    ptOut.op = "parse" =>
        (ptOut.ok <=>
            /\ ptResp.under
            /\ \/ /\ ptResp.action \in {"create", "set"}
                  /\ ptResp.parts = 3
                  /\ ptResp.dir
                  /\ Claimable(ptResp.nodes)
               \/ /\ ptResp.action \in {"create", "set"}
                  /\ ptResp.parts = 4
                  /\ ptResp.last = "props"
                  /\ ~ptResp.dir
                  /\ ptResp.valid
               \/ /\ ptResp.action \in {"expire", "delete", "compareAndDelete"}
                  /\ ptResp.parts = 4
                  /\ ptResp.last = "owner"
                  /\ ~ptResp.get.err
                  /\ Claimable(ptResp.get.nodes))

\* a removed owner key whose task the GET shows with props and no owner
\* has yielded the task
C32_Witness ==
    /\ ptOut.op = "parse"
    /\ ptOut.ok
    /\ ptResp.action = "compareAndDelete"
    /\ ptResp.get.nodes = <<"other", "props">>


\* ---------------------------------------------------------------------
\* The consumer's mutexes and the calls made outside it
\* ---------------------------------------------------------------------

\* the steps of a goroutine
Lock(l) == [op |-> "lock", on |-> l]
Unlock(l) == [op |-> "unlock", on |-> l]
Call(f) == [op |-> "call", on |-> f]
Return(f) == [op |-> "return", on |-> f]
Go(g) == [op |-> "go", on |-> g]

\* runningtask.stop(): stopL.Lock(), the deferred Unlock, h.Stop() between
stop1 == <<Lock("stopL"), Call("Stop"), Return("Stop"), Unlock("stopL")>>

\* what each goroutine does to the mutexes and which coordinator and handler
\* methods it calls, in program order: the main loop takes a task through
\* Frozen(), coord.Claim, claimed() (which starts the handler goroutine),
\* then stops it with stopTask (which starts the goroutine calling stop())
\* and goes through shutdown(): coord.Close, Tasks(); the handler goroutine
\* runs h.Run, deletes the task from c.running, calls coord.Done or
\* coord.Release and reads rt.Stopped()
Program(g) ==
    CASE g = "main" ->
           <<Lock("freezeL"), Unlock("freezeL"),
             Call("Claim"), Return("Claim"),
             Lock("runL"), Go("handler"), Unlock("runL"),
             Lock("runL"), Unlock("runL"), Go("stopper"),
             Call("Close"), Return("Close"),
             Lock("runL"), Unlock("runL")>>
      [] g = "handler" ->
           <<Call("Run"), Return("Run"),
             Lock("runL"), Unlock("runL"),
             Call("Finalize"), Return("Finalize"),
             Lock("stopL"), Unlock("stopL")>>
      [] g = "stopper" -> stop1

\* the step g is to take next
NextStep(g) == Program(g)[lkAt[g]]

\* g has started and not finished
Active(g) == lkAt[g] \in DOMAIN Program(g)

\* g takes a mutex: it waits while another goroutine holds it
LkLock(g) ==
    /\ Active(g)
    /\ NextStep(g).op = "lock"
    /\ lkHolder[NextStep(g).on] = None
    /\ lkHolder' = [lkHolder EXCEPT ![NextStep(g).on] = g]
    /\ lkAt' = [lkAt EXCEPT ![g] = @ + 1]
    /\ UNCHANGED besideLk

\* g gives a mutex up
LkUnlock(g) ==
    /\ Active(g)
    /\ NextStep(g).op = "unlock"
    /\ lkHolder' = [lkHolder EXCEPT ![NextStep(g).on] = None]
    /\ lkAt' = [lkAt EXCEPT ![g] = @ + 1]
    /\ UNCHANGED besideLk

\* g enters a method of the coordinator or of the handler, or that method
\* returns (it need not: the method may block for any time)
LkCall(g) ==
    /\ Active(g)
    /\ NextStep(g).op \in {"call", "return"}
    /\ lkAt' = [lkAt EXCEPT ![g] = @ + 1]
    /\ UNCHANGED <<besideLk, lkHolder>>

\* g starts another goroutine
LkGo(g) ==
    /\ Active(g)
    /\ NextStep(g).op = "go"
    /\ lkAt' = [lkAt EXCEPT ![g] = @ + 1, ![NextStep(g).on] = 1]
    /\ UNCHANGED <<besideLk, lkHolder>>

\* One task of a consumer is claimed, run, stopped and finalized while the
\* consumer shuts down.
InitLocks ==
    /\ InitSys([submit |-> 0, cmd |-> 0, expire |-> 0, refuse |-> 0,
                tick |-> 0, werr |-> 0, yield |-> 0])
    /\ EmIdle /\ RtIdle /\ FbIdle /\ ClIdle /\ RbIdle /\ MxIdle /\ BmIdle /\ TkIdle /\ PtIdle /\ MlIdle /\ EsIdle /\ NrIdle
    /\ LkIdle

NextLocks ==
    \E g \in Goroutines : LkLock(g) \/ LkUnlock(g) \/ LkCall(g) \/ LkGo(g)

SpecLocks == InitLocks /\ [][NextLocks]_vars

\* g is inside a method of the coordinator or of the handler
InCall(g) == Active(g) /\ NextStep(g).op = "return"

\* C33: while a goroutine of the consumer is inside coord.Claim,
\* coord.Release, coord.Done, coord.Close, handler.Run or handler.Stop it
\* holds none of the consumer's mutexes.
C33_NoLockAcrossCalls ==
    \A g \in Goroutines : InCall(g) => \A l \in Locks : lkHolder[l] # g


\* ---------------------------------------------------------------------
\* c.running and the handler goroutines
\* ---------------------------------------------------------------------

\* the handler goroutines of n that are inside runTask for the task t
InRun(n, t) == {i \in DOMAIN hs[n] : hs[n][i].task = t /\ hs[n][i].pc = "run"}

AtDuplicate(n) == runPc[n] = "admit" /\ running[n][cur[n]] # 0

\* C35: when a task ID that is already in running reaches the admission
\* path, claimed() starts no second handler and leaves running and hwg
\* unchanged; at no time do two handler goroutines of one consumer run the
\* same task ID.
C35_DuplicateNotAdmitted ==
    /\ [](\A n \in Nodes, t \in Tasks : Cardinality(InRun(n, t)) <= 1)
    /\ [][\A n \in Nodes :
            (AtDuplicate(n) /\ claimed(n)) => UNCHANGED <<hs, running, hwg>>]_vars

\* the watch has delivered, and the consumer has claimed, a task that is
\* still in running with its handler inside Run
C35_Witness ==
    \E n \in Nodes : AtDuplicate(n) /\ hs[n][running[n][cur[n]]].pc = "run"


\* ---------------------------------------------------------------------
\* The main loop, step by step
\* ---------------------------------------------------------------------

\* a main loop that takes the next event wherever it is
atSelectAlways(pc) == TRUE

\* the main loop is at the top of its `for`, in one of its two selects
atSelect(pc) == pc = "select"

\* the watcher has a task and blocks in `out <- task`
MlTaskSend(t) ==
    /\ mlTaskCh = None
    /\ mlTaskCh' = t
    /\ UNCHANGED <<besideMl, mlPc, mlCur, mlCmd, mlRel, mlRunning, mlFreeze, mlCmdCh, mlBalCh, mlAdm, mlBal, mlCmds>>

\* the command poller has a command and blocks in `cmdChan <- cmd`
MlCmdSend(c) ==
    /\ mlCmdCh = NoCmd
    /\ mlCmdCh' = c
    /\ UNCHANGED <<besideMl, mlPc, mlCur, mlCmd, mlRel, mlRunning, mlFreeze, mlTaskCh, mlBalCh, mlAdm, mlBal, mlCmds>>

\* the balance ticker's timer fired and it blocks in `balance <- true`
MlTickSend ==
    /\ ~mlBalCh
    /\ mlBalCh' = TRUE
    /\ UNCHANGED <<besideMl, mlPc, mlCur, mlCmd, mlRel, mlRunning, mlFreeze, mlTaskCh, mlCmdCh, mlAdm, mlBal, mlCmds>>

\* `case task := <-c.tasks` of the unfrozen select: bal.CanClaim accepts
\* the task, and the loop goes on to coord.Claim, or refuses it
MlRecvTask ==
    /\ atSelect(mlPc)
    /\ ~mlFreeze
    /\ mlTaskCh # None
    /\ mlTaskCh' = None
    /\ \E ok \in BOOLEAN :
         IF ok
         THEN mlPc' = "claim" /\ mlCur' = mlTaskCh /\ mlAdm' = mlAdm + 1
         ELSE UNCHANGED <<mlPc, mlCur, mlAdm>>
    /\ UNCHANGED <<besideMl, mlCmd, mlRel, mlRunning, mlFreeze, mlCmdCh, mlBalCh, mlBal, mlCmds>>

\* coord.Claim returns
MlClaim ==
    /\ mlPc = "claim"
    /\ \E ok \in BOOLEAN :
         IF ok
         THEN mlPc' = "claimed" /\ UNCHANGED <<mlCur, mlAdm>>
         ELSE mlPc' = "select" /\ mlCur' = None /\ mlAdm' = mlAdm - 1
    /\ UNCHANGED <<besideMl, mlCmd, mlRel, mlRunning, mlFreeze, mlTaskCh, mlCmdCh, mlBalCh, mlBal, mlCmds>>

\* claimed(): the only place a task is added to c.running
MlClaimed ==
    /\ mlPc = "claimed"
    /\ mlRunning' = mlRunning \cup {mlCur}
    /\ mlPc' = "select"
    /\ mlCur' = None
    /\ mlAdm' = mlAdm - 1
    /\ UNCHANGED <<besideMl, mlCmd, mlRel, mlFreeze, mlTaskCh, mlCmdCh, mlBalCh, mlBal, mlCmds>>

\* `case <-balance: c.balance()` of the unfrozen select: into bal.Balance()
MlRecvTick ==
    /\ atSelect(mlPc)
    /\ ~mlFreeze
    /\ mlBalCh
    /\ mlBalCh' = FALSE
    /\ mlPc' = "balance"
    /\ mlBal' = mlBal + 1
    /\ UNCHANGED <<besideMl, mlCur, mlCmd, mlRel, mlRunning, mlFreeze, mlTaskCh, mlCmdCh, mlAdm, mlCmds>>

\* bal.Balance() returns some IDs
MlBalanceReturn ==
    /\ mlPc = "balance"
    /\ \E rel \in SUBSET Tasks : mlRel' = rel
    /\ mlPc' = "release"
    /\ UNCHANGED <<besideMl, mlCur, mlCmd, mlRunning, mlFreeze, mlTaskCh, mlCmdCh, mlBalCh, mlAdm, mlBal, mlCmds>>

\* Consumer.balance calls stopTask for each ID and returns, to the select
\* or into the handleCommand that called it
MlReleased ==
    /\ mlPc = "release"
    /\ mlRel' = {}
    /\ mlBal' = mlBal - 1
    /\ mlPc' = IF mlCmd = NoCmd THEN "select" ELSE "return"
    /\ UNCHANGED <<besideMl, mlCur, mlCmd, mlRunning, mlFreeze, mlTaskCh, mlCmdCh, mlBalCh, mlAdm, mlCmds>>

\* `case cmd, ok := <-cmdChan` of either select: into handleCommand
MlRecvCmd ==
    /\ atSelect(mlPc)
    /\ mlCmdCh # NoCmd
    /\ mlCmdCh' = NoCmd
    /\ mlCmd' = mlCmdCh
    /\ mlCmds' = mlCmds + 1
    /\ mlPc' = "command"
    /\ UNCHANGED <<besideMl, mlCur, mlRel, mlRunning, mlFreeze, mlTaskCh, mlBalCh, mlAdm, mlBal>>

\* handleCommand's switch
MlHandle ==
    /\ mlPc = "command"
    /\ CASE mlCmd.name = cmdFreeze ->
              mlFreeze' = TRUE /\ mlPc' = "return" /\ UNCHANGED mlBal
         [] mlCmd.name = cmdUnfreeze ->
              mlFreeze' = FALSE /\ mlPc' = "return" /\ UNCHANGED mlBal
         [] mlCmd.name = cmdBalance ->
              mlPc' = "balance" /\ mlBal' = mlBal + 1 /\ UNCHANGED mlFreeze
         [] OTHER ->
              mlPc' = "return" /\ UNCHANGED <<mlFreeze, mlBal>>
    /\ UNCHANGED <<besideMl, mlCur, mlCmd, mlRel, mlRunning, mlTaskCh, mlCmdCh, mlBalCh, mlAdm, mlCmds>>

\* handleCommand returns to the main loop
MlCommandReturn ==
    /\ mlPc = "return"
    /\ mlCmd' = NoCmd
    /\ mlCmds' = mlCmds - 1
    /\ mlPc' = "select"
    /\ UNCHANGED <<besideMl, mlCur, mlRel, mlRunning, mlFreeze, mlTaskCh, mlCmdCh, mlBalCh, mlAdm, mlBal>>

\* a handler goroutine's Run ends and runTask deletes its task from
\* c.running, whatever the main loop is doing
MlHandlerExit(t) ==
    /\ t \in mlRunning
    /\ mlRunning' = mlRunning \ {t}
    /\ UNCHANGED <<besideMl, mlPc, mlCur, mlCmd, mlRel, mlFreeze, mlTaskCh, mlCmdCh, mlBalCh, mlAdm, mlBal, mlCmds>>

\* A running consumer: its watcher, command poller and balance ticker offer
\* events to the main loop at any time while handlers come and go.
InitLoop ==
    /\ InitSys([submit |-> 0, cmd |-> 0, expire |-> 0, refuse |-> 0,
                tick |-> 0, werr |-> 0, yield |-> 0])
    /\ EmIdle /\ RtIdle /\ FbIdle /\ ClIdle /\ RbIdle /\ MxIdle /\ BmIdle /\ TkIdle /\ PtIdle /\ LkIdle /\ EsIdle /\ NrIdle
    /\ MlIdle

NextLoop ==
    \/ \E t \in Tasks : MlTaskSend(t) \/ MlHandlerExit(t)
    \/ \E c \in Commands : MlCmdSend(c)
    \/ MlTickSend
    \/ MlRecvTask
    \/ MlClaim
    \/ MlClaimed
    \/ MlRecvTick
    \/ MlBalanceReturn
    \/ MlReleased
    \/ MlRecvCmd
    \/ MlHandle
    \/ MlCommandReturn

SpecLoop == InitLoop /\ [][NextLoop]_vars

\* C36: admission, balancing and command handling of one consumer never
\* overlap: no admission is in progress during a Balance or a command, a
\* Balance runs beside a command only as that run_balance command's own, no
\* two commands and no two Balances are in progress at once; and while a
\* Balance or a command is in progress running only shrinks.
C36_MainLoopSerializes ==
    /\ [](/\ mlAdm + mlCmds <= 1
          /\ mlAdm + mlBal <= 1
          /\ (mlBal = 1 /\ mlCmds = 1) => mlCmd.name = cmdBalance)
    /\ [][(mlBal > 0 \/ mlCmds > 0) => mlRunning' \subseteq mlRunning]_vars

\* a run_balance command is inside Balance while the watcher holds a task
\* and the poller the next command, and a handler has left running
C36_Witness ==
    /\ mlPc = "release"
    /\ mlCmds = 1
    /\ mlTaskCh # None
    /\ mlCmdCh # NoCmd
    /\ mlRel # {}
    /\ mlRunning = {}


\* C37: FairBalancer.Balance terminates on every local task list and every
\* cluster state: a call that entered the picking loop leaves it.
C37_BalanceTerminates == (fbPc = "loop") ~> (fbPc = "idle")


\* ------------------------------------------------------ Command returns

\* The consumer under Go's scheduling, with a coord.Command that may fail
\* while the coordinator is open.  A select finds the closed cmdChan ready
\* every time it runs, so the main loop eventually takes that case.
InitCmdFail ==
    InitWith([submit |-> MaxLiveSubmit, cmd |-> MaxCmd, expire |-> 0,
              refuse |-> 0, tick |-> MaxTick, werr |-> 0, yield |-> 0])

NextCmdFail == NextLive \/ PollError("n1")

SpecCmdFail ==
    InitCmdFail /\ [][NextCmdFail]_vars /\ Fairness("n1")
       /\ WF_vars(LoopCommandClosed("n1"))

\* coord.Command has failed on n: the poller is gone though neither c.stop
\* nor the coordinator's stop channel is closed
CommandFailed(n) == pollPc[n] = "exit" /\ ~stop[n] /\ ~ecStop[n]

EsSubmit(t) ==
    /\ ~esPanic
    /\ esLeft > 0
    /\ t \notin esIn
    /\ esIn' = esIn \cup {t}
    /\ esLeft' = esLeft - 1
    /\ UNCHANGED <<besideEs, esSeen, esOut, esRunning, esHs, esPanic>>

\* EmbeddedCoordinator.Watch: `case task, ok := <-e.inchan`, then
\* e.tasks[task.ID()] = task, then it blocks in `out <- task`
EsWatch(t) ==
    /\ ~esPanic
    /\ esOut = None
    /\ t \in esIn
    /\ esIn' = esIn \ {t}
    /\ esSeen' = esSeen \cup {t}
    /\ esOut' = t
    /\ UNCHANGED <<besideEs, esRunning, esHs, esLeft, esPanic>>

\* the main loop takes the task from c.tasks; Claim returns true; claimed()
\* drops a task that is in c.running and else starts its handler goroutine
EsAdmit ==
    /\ ~esPanic
    /\ esOut # None
    /\ esOut' = None
    /\ IF esOut \in esRunning \/ Len(esHs) >= MaxSeenHandlers
       THEN UNCHANGED <<esRunning, esHs>>
       ELSE /\ esRunning' = esRunning \cup {esOut}
            /\ esHs' = Append(esHs, [task |-> esOut, pc |-> "run", done |-> FALSE])
    /\ UNCHANGED <<besideEs, esSeen, esIn, esLeft, esPanic>>

\* runTask: the handler's Run returns isdone and the task is deleted from
\* c.running
EsRunTask(i, isdone) ==
    /\ ~esPanic
    /\ i \in DOMAIN esHs
    /\ esHs[i].pc = "run"
    /\ esRunning' = esRunning \ {esHs[i].task}
    /\ esHs' = [esHs EXCEPT ![i].pc = "after", ![i].done = isdone]
    /\ UNCHANGED <<besideEs, esSeen, esIn, esOut, esLeft, esPanic>>

\* EmbeddedCoordinator.Done: delete(e.tasks, taskID)
EsDone(i) ==
    /\ ~esPanic
    /\ i \in DOMAIN esHs
    /\ esHs[i].pc = "after"
    /\ esHs[i].done
    /\ esSeen' = esSeen \ {esHs[i].task}
    /\ esHs' = [esHs EXCEPT ![i].pc = "exit"]
    /\ UNCHANGED <<besideEs, esIn, esOut, esRunning, esLeft, esPanic>>

\* EmbeddedCoordinator.Release: panic if e.tasks has no such ID, else start
\* a goroutine that sends the task on inchan
EsRelease(i) ==
    /\ ~esPanic
    /\ i \in DOMAIN esHs
    /\ esHs[i].pc = "after"
    /\ ~esHs[i].done
    /\ IF esHs[i].task \in esSeen
       THEN /\ esIn' = esIn \cup {esHs[i].task}
            /\ UNCHANGED esPanic
       ELSE /\ esPanic' = TRUE
            /\ UNCHANGED esIn
    /\ esHs' = [esHs EXCEPT ![i].pc = "exit"]
    /\ UNCHANGED <<besideEs, esSeen, esOut, esRunning, esLeft>>

\* A consumer on the embedded coordinator; the user may submit any ID at any
\* time, also one a handler is running.
InitSeen ==
    /\ InitSys([submit |-> 0, cmd |-> 0, expire |-> 0, refuse |-> 0,
                tick |-> 0, werr |-> 0, yield |-> 0])
    /\ EmIdle /\ RtIdle /\ FbIdle /\ ClIdle /\ RbIdle /\ MxIdle /\ BmIdle /\ TkIdle /\ PtIdle /\ LkIdle /\ MlIdle /\ NrIdle
    /\ esSeen = {} /\ esIn = {} /\ esOut = None /\ esRunning = {} /\ esHs = <<>>
    /\ esPanic = FALSE
    /\ esLeft = MaxSeenSubmit

NextSeen ==
    \/ \E t \in Tasks : EsSubmit(t) \/ EsWatch(t)
    \/ EsAdmit
    \/ \E i \in 1..MaxSeenHandlers :
          \/ \E isdone \in BOOLEAN : EsRunTask(i, isdone)
          \/ EsDone(i)
          \/ EsRelease(i)

SpecSeen == InitSeen /\ [][NextSeen]_vars

\* C39: every coord.Release(id) the consumer issues finds id in the embedded
\* coordinator's seen-task map: Release never panics.
C39_ReleaseFindsSeenTask == ~esPanic


\* ---------------------------------------------------------------------
\* The etcd coordinator's stop channel
\* ---------------------------------------------------------------------

\* nodeRefresher's select: `case <-time.After(ttl)`: into refreshBy
NrTimer ==
    /\ nrCloses <= 1
    /\ nrRef = "wait"
    /\ nrRef' = "refresh"
    /\ UNCHANGED <<besideNr, nrStop, nrCloses, nrPc, nrTries, nrWatch, nrCons>>

\* nodeRefresher's select: `case <-ec.stop: return`
NrStopped ==
    /\ nrCloses <= 1
    /\ nrRef = "wait"
    /\ nrStop
    /\ nrRef' = "exit"
    /\ UNCHANGED <<besideNr, nrStop, nrCloses, nrPc, nrTries, nrWatch, nrCons>>

\* refreshBy returns nil: UpdateDir worked, or ec.stop was found closed
\* before the first try
NrRefreshed ==
    /\ nrCloses <= 1
    /\ nrRef = "refresh"
    /\ nrStop \/ nrTries < MaxRefresh
    /\ nrTries' = IF nrStop THEN nrTries ELSE nrTries + 1
    /\ nrRef' = "wait"
    /\ UNCHANGED <<besideNr, nrStop, nrCloses, nrPc, nrWatch, nrCons>>

\* refreshBy returns the last UpdateDir error at the deadline, ec.stop being
\* open at its last look; nodeRefresher calls ec.Close()
NrRefreshFailed ==
    /\ nrCloses <= 1
    /\ nrRef = "refresh"
    /\ ~nrStop
    /\ nrRef' = "close"
    /\ nrPc' = [nrPc EXCEPT !["refresher"] = "check"]
    /\ UNCHANGED <<besideNr, nrStop, nrCloses, nrTries, nrWatch, nrCons>>

\* the consumer's main loop returns (Shutdown was called, or Watch or
\* Command returned) and shutdown() calls c.coord.Close()
NrShutdown ==
    /\ nrCloses <= 1
    /\ nrCons = "run"
    /\ nrCons' = "shutdown"
    /\ nrPc' = [nrPc EXCEPT !["shutdown"] = "check"]
    /\ UNCHANGED <<besideNr, nrStop, nrCloses, nrRef, nrTries, nrWatch>>

\* EtcdCoordinator.Close, its select: return if ec.stop is closed
NrCloseCheck(c) ==
    /\ nrCloses <= 1
    /\ nrPc[c] = "check"
    /\ nrPc' = [nrPc EXCEPT ![c] = IF nrStop THEN "done" ELSE "close"]
    /\ UNCHANGED <<besideNr, nrStop, nrCloses, nrRef, nrTries, nrWatch, nrCons>>

\* EtcdCoordinator.Close: close(ec.stop), which panics on a closed channel
NrCloseStop(c) ==
    /\ nrCloses <= 1
    /\ nrPc[c] = "close"
    /\ nrStop' = TRUE
    /\ nrCloses' = nrCloses + 1
    /\ nrPc' = [nrPc EXCEPT ![c] = "delete"]
    /\ UNCHANGED <<besideNr, nrRef, nrTries, nrWatch, nrCons>>

\* EtcdCoordinator.Close deletes the node entry and returns; so does a Close
\* that found ec.stop closed.  nodeRefresher goes round its loop, shutdown()
\* goes on to stop the handlers.
NrCloseReturn(c) ==
    /\ nrCloses <= 1
    /\ nrPc[c] \in {"delete", "done"}
    /\ nrPc' = [nrPc EXCEPT ![c] = "idle"]
    /\ IF c = "refresher"
       THEN nrRef' = "wait" /\ UNCHANGED nrCons
       ELSE nrCons' = "down" /\ UNCHANGED nrRef
    /\ UNCHANGED <<besideNr, nrStop, nrCloses, nrTries, nrWatch>>

\* Watch finds ec.stop closed and returns nil
NrWatchReturn ==
    /\ nrCloses <= 1
    /\ nrWatch = "watching"
    /\ nrStop
    /\ nrWatch' = "returned"
    /\ UNCHANGED <<besideNr, nrStop, nrCloses, nrPc, nrRef, nrTries, nrCons>>

\* An etcd coordinator under a running consumer: the broker may become
\* unreachable for the node refresher at any time, and the consumer may shut
\* down at any time.
InitRefresher ==
    /\ InitSys([submit |-> 0, cmd |-> 0, expire |-> 0, refuse |-> 0,
                tick |-> 0, werr |-> 0, yield |-> 0])
    /\ EmIdle /\ RtIdle /\ FbIdle /\ ClIdle /\ RbIdle /\ MxIdle /\ BmIdle /\ TkIdle /\ PtIdle /\ LkIdle /\ MlIdle /\ EsIdle
    /\ NrIdle

NextRefresher ==
    \/ NrTimer
    \/ NrStopped
    \/ NrRefreshed
    \/ NrRefreshFailed
    \/ NrShutdown
    \/ \E c \in Closers : NrCloseCheck(c) \/ NrCloseStop(c) \/ NrCloseReturn(c)
    \/ NrWatchReturn

SpecRefresher == InitRefresher /\ [][NextRefresher]_vars

\* C40: the etcd coordinator's stop channel is closed at most once, also
\* when the node refresher's Close and the Close of the consumer's shutdown
\* run concurrently.
C40_StopClosedOnce == nrCloses <= 1

=============================================================================
